---- MODULE Spec2Model ----
(***************************************************************************)
(* Verification model of hwt905-raspi-lite: the HWT905 packet framer and   *)
(* the main read loop, the asynchronous ingest pipeline, the connection    *)
(* supervisor and the sensor configuration protocol.                       *)
(*                                                                         *)
(* Each subsystem has its own specification over the shared variables:     *)
(*   SpecMainLoop   - HWT905DataDecoder.read_one_packet under main.py's    *)
(*                    _main_loop_thread                                    *)
(*   SpecPipeline   - the reader, decoder, processor and publisher threads *)
(*                    of core/async_data_manager.py                        *)
(*   SpecSupervisor - SensorConnectionManager.auto_reconnect next to the   *)
(*                    serial reader thread                                 *)
(*   SpecConfig     - the composite configuration operations of            *)
(*                    HWT905ConfigManager, the remote command handler and  *)
(*                    the startup sequence of main.py                      *)
(*   SpecStartup    - main.py's startup of a real sensor                   *)
(*   SpecRead       - one register read of HWT905ConfigManager             *)
(*   SpecRls        - one RLSIntegrator                                    *)
(*   SpecSdp        - a SensorDataProcessor that is reset                  *)
(*   SpecStorage    - StorageManager: rotation, startup modes, failures    *)
(*   SpecClose      - closing the storage file and the serial connection   *)
(*   SpecPort       - the serial port under main.py and the configuration  *)
(*                    service of scripts/mqtt_config_service.py            *)
(*   SpecUpload     - scripts/sender.py run next to the StorageManager     *)
(***************************************************************************)
EXTENDS Integers, Sequences, FiniteSets, TLC

(***************************************************************************)
(* Protocol constants (src/src/sensors/hwt905_constants.py)                *)
(***************************************************************************)
DATA_HEADER_BYTE == 85
DATA_PACKET_LENGTH == 11
\* read_one_packet: "if len(garbage_bytes) > 50"
GARBAGE_THRESHOLD == 50
\* auto_reconnect: "reconnect_delay = 3" and "min(reconnect_delay + 1, 10)"
INITIAL_RECONNECT_DELAY == 3
MAX_RECONNECT_DELAY == 10
\* handle_serial_error: "max_failures: int = 3"
MAX_FAILURES == 3
\* command packets: FF AA ADDR DATAL DATAH
COMMAND_HEADER_BYTE1 == 255
COMMAND_HEADER_BYTE2 == 170
REG_SAVE == 0
REG_RSW == 2
REG_RRATE == 3
REG_BAUD == 4
REG_KEY == 105
UNLOCK_KEY_VALUE_DATAL == 136
UNLOCK_KEY_VALUE_DATAH == 181
SAVE_CONFIG_VALUE == 0
FACTORY_RESET_VALUE == 1
RESTART_SENSOR_VALUE == 255
REG_READADDR == 39
PACKET_TYPE_READ_REGISTER == 95
RATE_OUTPUT_10HZ == 6
RATE_OUTPUT_50HZ == 8
RATE_OUTPUT_100HZ == 9
RATE_OUTPUT_200HZ == 11
BAUD_RATE_9600 == 2
BAUD_RATE_115200 == 6
BAUD_RATE_230400 == 7
DEFAULT_RSW_VALUE == 30
RSW_ACC_BIT == 2
\* _send_write_command: "retries: int = 3"; factory reset and restart pass 5
DEFAULT_RETRIES == 3
CRITICAL_RETRIES == 5
warmup_frames == 5

(***************************************************************************)
(* Bounds of the model                                                     *)
(***************************************************************************)
\* number of segments (packets, garbage runs) the sensor stream is made of
MaxSegs == 3
\* read calls that time out with no new byte, counted up to this bound
MaxIdle == 1
\* serial exceptions raised by ser.read in one run
MaxSerialErrors == 1
\* raw packets the serial reader thread reads in one run
MaxPackets == 3
\* capacity of each pipeline queue
QCap == 2
\* exceptions raised inside the decoder, processor and publisher stages
MaxStageErrors == 1
\* SensorDataProcessor.rls_sample_frame_size: samples needed before a result
rls_sample_frame_size == 2
\* iterations of the auto_reconnect loop in one call
MaxAttempts == 9
\* calls of auto_reconnect in one run
MaxEpisodes == 2
\* register reads and writes of the application's startup configuration
MaxConfigOps == 3
\* calls of read_one_packet by the application's read loop
MaxPortReads == 3
\* times the config service is started next to the application
MaxServiceRuns == 2
MaxReads == 3
\* RLSIntegrator.calc_frame_multiplier (the application passes 100)
rls_calc_frame_multiplier == 2
\* largest value RLSIntegrator.warmup_frames is set to
MaxWarmup == 3
\* calls of process_frame on one integrator
MaxFrames == 4
\* samples given to a SensorDataProcessor before and after its reset
MaxSamples == 6
\* FFTAnalyzer.n_fft_points (the application passes 512)
fft_n_points == 2
\* clock ticks in one second: file names carry the time to the second,
\* datetime.now() is finer
TicksPerSecond == 2
\* StorageManager.file_rotation_delta in ticks
RotationTicks == 4
\* the clock runs up to this tick
MaxTime == 7
\* rows given to StorageManager.write_data in one run
MaxRows == 3
\* file operations that fail in one run
MaxIoErrors == 1
\* times the application is restarted over the same output directory
MaxRestarts == 1
\* runs of scripts/sender.py next to the running application
MaxUploaderRuns == 2

VARIABLES
    \* ---- main loop / framer ----
    segs,            \* the segments of the byte stream the sensor writes
    arrived,         \* number of stream bytes ser.read has delivered so far
    packet_buffer,   \* HWT905DataDecoder._packet_buffer
    returned,        \* the decoded packets read_one_packet has returned, in order
    idle_calls,      \* consecutive calls that got no new byte
    serial_errors,   \* serial exceptions seen so far
    mismatch_seen,   \* a possible_baudrate_mismatch result was returned
    main_running,    \* main.py _running_flag
    \* ---- asynchronous pipeline ----
    running_flag,    \* the threading.Event shared by the four threads
    raw_data_queue,  \* Q_raw
    decoded_data_queue, \* Q_dec
    mqtt_queue,      \* Q_mqtt
    publisher,       \* what get_publisher() returned: "ok" or "None"
    pcR, pcD, pcP, pcM, \* position of each thread in its run()
    r_item, d_item, p_item, \* the item a thread is about to put on its queue
    raw_packet_count,   \* packets the reader has read so far
    acc_buffer_len,  \* SensorDataProcessor: len(acc_raw_buffer_x), capped
    frame_count,     \* integrator_x.frame_count, counted up to warmup_frames
    stage_errors,    \* exceptions raised inside D, P and M so far
    events,          \* what has happened in the run (history, not program state)
    \* ---- connection supervisor ----
    pcS,             \* "watch", "auto_reconnect" (inside the loop) or "stopped"
    ser,             \* SensorConnectionManager.ser: "open" or "None"
    current_port,    \* SensorConnectionManager.current_port
    preferred_port,  \* SensorConnectionManager.preferred_port
    consecutive_failures, \* read failures in a row, as passed to handle_serial_error
    attempt_count,   \* auto_reconnect: attempt_count
    reconnect_delay, \* auto_reconnect: reconnect_delay
    reconnection_attempts, \* SensorConnectionManager.reconnection_attempts
    sup_hist,        \* the sleeps of the auto_reconnect call, the number of calls, and
                     \* what the last establish_connection met (history)
    \* ---- sensor configuration ----
    cfg_op,          \* the composite operation that ran last
    cfg_trace,       \* its write steps in order: [cmd, attempts, ok]
    cfg_result,      \* what it returned
    cfg_arg,         \* the argument it was called with (0 when it takes none)
    cfg_hex_command, \* the bytes of the hex_command a raw_hex operation was given
    cfg_prior,       \* what this session had sent before it: [unlocked]
    \* ---- startup of a real sensor (main) ----
    st_pc,           \* where main() is: "load_config", "connect", "verify_baudrate",
                     \* "factory_reset", "reconnect", "verify_factory_reset_state",
                     \* "configure", "mqtt_connect", "run", "exit"
    sensor_baudrate, \* app_config["sensor"]["baud_rate"]
    st_baudrate,     \* config_manager.baudrate
    st_ser,          \* baudrate of the open port config_manager.ser, 0 when it is None
    st_io,           \* register reads and writes issued so far: [cmd, ok, baud, after_reset]
    st_exit,         \* how the process ended: [code, failure]; code -1 while it runs
    \* ---- one register read (read_current_config) ----
    rd_pc,           \* "loop" while the read waits for its response, then "returned"
    rd_caller,       \* "read_current_config" or "verify_baudrate"
    rd_chunks,       \* what the calls of ser.read still to come before the timeout return
    rd_arrived,      \* the bytes ser.read has returned so far
    rd_buf,          \* decoder._packet_buffer
    rd_ret,          \* what the caller got: [kind, value], kind being "value", "None",
                     \* "ValueError" (raised), "True" or "False"
    \* ---- one RLSIntegrator ----
    rls,             \* the integrator object
    rls_log,         \* its process_frame calls in order: [acc_frame, before, after, ret]
    \* ---- a SensorDataProcessor that is reset, next to a new one ----
    sdp,             \* the processor that is used and then reset
    sdp_new,         \* a processor constructed when the first one is reset
    sdp_pc,          \* "used" until reset() is called, then "reset"
    sdp_calls,       \* process_new_sample calls [before, after] the reset
    sdp_ret,         \* what the last call returned: [reset, new]
    \* ---- the rotating CSV storage ----
    sto,             \* the StorageManager object
    sto_now,         \* datetime.now() in ticks
    sto_dir,         \* base_dir: file name -> [rows, mtime]; row 0 is a header
    sto_log,         \* the write_data calls in order (history)
    sto_hist,        \* counts of rows, failures and restarts; the last close (history)
    \* ---- the serial port between the application and the config service ----
    pt_pc,           \* where the application is: "connect", "configure", "reading", "closed"
    pt_holders,      \* the processes that hold the port open
    pt_busy,         \* the operations in progress on the port: [by, kind]
    pt_count,        \* the application's configuration operations and reads, the
                     \* service's runs and commands so far
    svc_pc,          \* the config service: "idle" (not running) or "listening"
    up_pc,           \* scripts/sender.py: "idle", "next_file", "publish" or "done"
    up_files,        \* sorted(files_to_send), the files not yet processed
    up_data_points,  \* the rows process_and_send_file has read from its file
    up_renamed,      \* the files renamed to X.csv.sent or X.csv.empty
    up_published,    \* the payloads given to client.publish, in order
    up_runs          \* the runs of sender.py so far

varsMain == <<segs, arrived, packet_buffer, returned, idle_calls,
              serial_errors, mismatch_seen, main_running>>

varsPipe == <<running_flag, raw_data_queue, decoded_data_queue, mqtt_queue, publisher,
              pcR, pcD, pcP, pcM, r_item, d_item, p_item, raw_packet_count,
              acc_buffer_len, frame_count, stage_errors, events>>

varsSup == <<pcS, ser, current_port, preferred_port, consecutive_failures, attempt_count, reconnect_delay,
             reconnection_attempts, sup_hist>>

varsCfg == <<cfg_op, cfg_trace, cfg_result, cfg_arg, cfg_hex_command, cfg_prior>>

varsStart == <<st_pc, sensor_baudrate, st_baudrate, st_ser, st_io, st_exit>>

varsRead == <<rd_pc, rd_caller, rd_chunks, rd_arrived, rd_buf, rd_ret>>

varsRls == <<rls, rls_log>>

\* the variables of the subsystems modelled after the register read
varsSdp == <<sdp, sdp_new, sdp_pc, sdp_calls, sdp_ret>>

varsSto == <<sto, sto_now, sto_dir, sto_log, sto_hist>>

varsPort == <<pt_pc, pt_holders, pt_busy, pt_count, svc_pc>>

varsUp == <<up_pc, up_files, up_data_points, up_renamed, up_published, up_runs>>

varsMore == <<varsRls, varsSdp, varsSto, varsPort, varsUp>>

vars == <<varsMain, varsPipe, varsSup, varsCfg, varsStart, varsRead, varsMore>>

\* what each subsystem leaves alone
notMain == <<varsPipe, varsSup, varsCfg, varsStart, varsRead, varsMore>>
notPipe == <<varsMain, varsSup, varsCfg, varsStart, varsRead, varsMore>>
notCfg == <<varsMain, varsPipe, varsSup, varsStart, varsRead, varsMore>>
notStart == <<varsMain, varsPipe, varsSup, varsCfg, varsRead, varsMore>>
notRead == <<varsMain, varsPipe, varsSup, varsCfg, varsStart, varsMore>>
varsUpToRead == <<varsMain, varsPipe, varsSup, varsCfg, varsStart, varsRead>>
notRls == <<varsUpToRead, varsSdp, varsSto, varsPort, varsUp>>
notSdp == <<varsUpToRead, varsRls, varsSto, varsPort, varsUp>>
notSto == <<varsUpToRead, varsRls, varsSdp, varsPort>>
notPort == <<varsUpToRead, varsRls, varsSdp, varsSto, varsUp>>

(***************************************************************************)
(* Values the variables of a subsystem hold while another one is explored  *)
(***************************************************************************)
NoEvents == [transport_fault |-> FALSE, operator_shutdown |-> FALSE,
             stage_error |-> FALSE, decode_error |-> FALSE,
             p_got_sentinel |-> FALSE, m_got_sentinel |-> FALSE,
             decoded |-> 0, published |-> 0,
             d_log |-> <<>>, p_log |-> <<>>, m_log |-> <<>>]

\* the None that ends a queue, and the empty slot of a thread
NoItem == [kind |-> "None", id |-> 0]

PipeQuiet ==
    /\ running_flag = TRUE
    /\ raw_data_queue = <<>> /\ decoded_data_queue = <<>> /\ mqtt_queue = <<>>
    /\ publisher = "ok"
    /\ pcR = "loop" /\ pcD = "loop" /\ pcP = "loop" /\ pcM = "start"
    /\ r_item = NoItem /\ d_item = NoItem /\ p_item = NoItem
    /\ raw_packet_count = 0
    /\ acc_buffer_len = 0
    /\ frame_count = 0
    /\ stage_errors = 0
    /\ events = NoEvents

NoSupHist == [slept |-> <<>>, episodes |-> 0, established |-> FALSE,
              present |-> {}, with_data |-> {}, openable |-> {}]

SupQuiet ==
    /\ pcS = "watch"
    /\ ser = "open"
    /\ current_port = "/dev/ttyUSB0"
    /\ preferred_port = "/dev/ttyUSB0"
    /\ consecutive_failures = 0
    /\ attempt_count = 0
    /\ reconnect_delay = INITIAL_RECONNECT_DELAY
    /\ reconnection_attempts = 0
    /\ sup_hist = NoSupHist

CfgQuiet ==
    /\ cfg_op = "none"
    /\ cfg_trace = <<>>
    /\ cfg_result = "none"
    /\ cfg_arg = 0
    /\ cfg_hex_command = <<>>
    /\ cfg_prior = [unlocked |-> FALSE]

\* the process has not ended
NoExit == [code |-> -1, failure |-> "none"]

\* main() ends at a `return` (or at its last line): the interpreter then
\* ends with status 0.  `failure` names the step that made main give up
Returned(failure) == [code |-> 0, failure |-> failure]

\* exit(1) at line 165
Exit1(failure) == [code |-> 1, failure |-> failure]

StartQuiet ==
    /\ st_pc = "run"
    /\ sensor_baudrate = 9600
    /\ st_baudrate = 9600
    /\ st_ser = 9600
    /\ st_io = <<>>
    /\ st_exit = NoExit

ReadQuiet ==
    /\ rd_pc = "returned"
    /\ rd_caller = "read_current_config"
    /\ rd_chunks = <<>>
    /\ rd_arrived = <<>>
    /\ rd_buf = <<>>
    /\ rd_ret = [kind |-> "None", value |-> 0]

RlsQuiet ==
    /\ rls = [acc_buffer |-> <<>>, frame_count |-> 0, P_theta |-> <<>>, warmup_frames |-> warmup_frames]
    /\ rls_log = <<>>

SdpQuiet ==
    /\ sdp = <<>>
    /\ sdp_new = <<>>
    /\ sdp_pc = "used"
    /\ sdp_calls = [before |-> 0, after |-> 0]
    /\ sdp_ret = <<>>

StoQuiet ==
    /\ sto = <<>>
    /\ sto_now = 0
    /\ sto_dir = <<>>
    /\ sto_log = <<>>
    /\ sto_hist = <<>>

PortQuiet ==
    /\ pt_pc = "closed"
    /\ pt_holders = {}
    /\ pt_busy = {}
    /\ pt_count = [config |-> 0, reads |-> 0, service_runs |-> 0, commands |-> 0]
    /\ svc_pc = "idle"

UpQuiet ==
    /\ up_pc = "idle"
    /\ up_files = {}
    /\ up_data_points = <<>>
    /\ up_renamed = <<>>
    /\ up_published = <<>>
    /\ up_runs = 0

MoreQuiet ==
    /\ RlsQuiet
    /\ SdpQuiet
    /\ StoQuiet
    /\ PortQuiet
    /\ UpQuiet

MainQuiet ==
    /\ segs = <<"A">>
    /\ arrived = 0
    /\ packet_buffer = <<>>
    /\ returned = <<>>
    /\ idle_calls = 0
    /\ serial_errors = 0
    /\ mismatch_seen = FALSE
    /\ main_running = TRUE

(***************************************************************************)
(* Sequence helpers                                                        *)
(***************************************************************************)
Drop(s, n) == SubSeq(s, n + 1, Len(s))

RECURSIVE SumSeq(_)
SumSeq(s) == IF s = <<>> THEN 0 ELSE Head(s) + SumSeq(Tail(s))

RECURSIVE Flatten(_)
Flatten(ss) == IF ss = <<>> THEN <<>> ELSE Head(ss) \o Flatten(Tail(ss))

Repeat(b, n) == [i \in 1..n |-> b]

Range(s) == {s[i] : i \in 1..Len(s)}

(***************************************************************************)
(* hwt905_protocol.py                                                      *)
(***************************************************************************)
\* calculate_checksum: sum(data_bytes) & 0xFF
calculate_checksum(data_bytes) == SumSeq(data_bytes) % 256

\* a validity check that forgets the checksum comparison
is_valid_data_packet_NoChecksum(packet_bytes) ==
    /\ Len(packet_bytes) = DATA_PACKET_LENGTH
    /\ packet_bytes[1] = DATA_HEADER_BYTE

is_valid_data_packet(packet_bytes) ==
    IF Len(packet_bytes) # DATA_PACKET_LENGTH THEN FALSE
    ELSE IF packet_bytes[1] # DATA_HEADER_BYTE THEN FALSE
    ELSE IF calculate_checksum(SubSeq(packet_bytes, 1, Len(packet_bytes) - 1))
              # packet_bytes[Len(packet_bytes)] THEN FALSE
    ELSE TRUE

(***************************************************************************)
(* The byte stream written by the sensor.  Segments:                       *)
(*   "A", "B"  valid ACCELERATION packets                                  *)
(*   "Bad"     packet B with a wrong checksum byte                         *)
(*   "G1"      one garbage byte 0xAA                                       *)
(*   "GLong"   51 garbage bytes 0xAA                                       *)
(*   "TailA"   the last byte of packet A (a mid-packet join); it is 0x55,  *)
(*             and followed by packet B it heads an 11-byte window whose   *)
(*             checksum matches                                            *)
(***************************************************************************)
PktA == <<85, 81, 175, 0, 0, 0, 0, 0, 0, 0, 85>>
PktB == <<85, 81, 0, 0, 0, 0, 0, 0, 0, 251, 161>>
PktBad == <<85, 81, 0, 0, 0, 0, 0, 0, 0, 251, 162>>

SegBytes(s) ==
    CASE s = "A" -> PktA
      [] s = "B" -> PktB
      [] s = "Bad" -> PktBad
      [] s = "G1" -> <<170>>
      [] s = "GLong" -> Repeat(170, GARBAGE_THRESHOLD + 1)
      [] s = "TailA" -> Drop(PktA, DATA_PACKET_LENGTH - 1)

PacketSegs == {"A", "B"}
SegKinds == {"A", "B", "Bad", "G1", "GLong"}

Stream == Flatten([i \in 1..Len(segs) |-> SegBytes(segs[i])])

\* offset (0-based) in the stream at which segment i starts
SegOffset(i) == Len(Flatten([j \in 1..(i - 1) |-> SegBytes(segs[j])]))

\* offsets at which the sensor's whole packets start
Boundaries == {SegOffset(i) : i \in {j \in 1..Len(segs) : segs[j] \in PacketSegs}}

\* the stream offsets of the sensor's whole packets, in arrival order
BoundarySeq ==
    LET F[i \in 0..Len(segs)] ==
            IF i = 0 THEN <<>>
            ELSE IF segs[i] \in PacketSegs THEN Append(F[i - 1], SegOffset(i))
                 ELSE F[i - 1]
    IN F[Len(segs)]

(***************************************************************************)
(* HWT905DataDecoder.read_one_packet                                       *)
(***************************************************************************)
\* bytes.find(DATA_HEADER_BYTE): 1-based index of the first header, 0 if none
FindHeader(buf) ==
    LET hits == {i \in 1..Len(buf) : buf[i] = DATA_HEADER_BYTE}
    IN IF hits = {} THEN 0 ELSE CHOOSE i \in hits : \A j \in hits : i <= j

NoPacket(buf) == [buf |-> buf, kind |-> "none", raw |-> <<>>, off |-> 0]

\* a framer that removes only the header byte of a packet it returns
AfterValid_DropHeaderOnly(buf) == Tail(buf)

\* line 155: the buffer after a valid packet was taken from its front
AfterValid(buf) == Drop(buf, DATA_PACKET_LENGTH)

\* line 161: the buffer after the candidate at its front failed validation
AfterInvalid(buf) == Tail(buf)

\* lines 129-167: the search loop; total = number of bytes read so far, so
\* that total - Len(buf) is the stream offset of the first byte of buf
RECURSIVE Frame(_, _)
Frame(buf, total) ==
    IF Len(buf) < DATA_PACKET_LENGTH THEN NoPacket(buf)
    ELSE LET hi == FindHeader(buf) IN
         IF hi = 0 THEN NoPacket(<<>>)
         ELSE LET b1 == Drop(buf, hi - 1) IN
              IF hi - 1 > GARBAGE_THRESHOLD
              THEN [buf |-> <<>>, kind |-> "possible_baudrate_mismatch",
                    raw |-> <<>>, off |-> 0]
              ELSE IF Len(b1) >= DATA_PACKET_LENGTH
                   THEN LET potential_packet == SubSeq(b1, 1, DATA_PACKET_LENGTH) IN
                        IF is_valid_data_packet(potential_packet)
                        THEN [buf |-> AfterValid(b1), kind |-> "packet",
                              raw |-> potential_packet, off |-> total - Len(b1)]
                        ELSE Frame(AfterInvalid(b1), total)
                   ELSE NoPacket(b1)

\* lines 114-126 then the search loop: n bytes are read; n = 0 is a read
\* that timed out, which returns None before the buffer is looked at
read_one_packet(buf, n) ==
    IF n = 0 THEN NoPacket(buf)
    ELSE Frame(buf \o SubSeq(Stream, arrived + 1, arrived + n), arrived + n)

(***************************************************************************)
(* main.py _main_loop_thread (lines 72-154), one iteration per step        *)
(***************************************************************************)
\* sizes ser.read(in_waiting or 1) may deliver when rem bytes are still to come
ChunkSizes(rem) == {k \in 1..rem : k \in {DATA_PACKET_LENGTH, 2 * DATA_PACKET_LENGTH} \/ k = rem}

\* lines 90-94 and 152-154: the run flag after an error result of this kind.
\* The mismatch result carries no "message" key, so the log line at 91 raises
\* KeyError and the handler at 152-154 clears the flag; lines 92-94 clear it
\* as well
MainKeepsRunning(kind) == kind # "possible_baudrate_mismatch"

MainInit ==
    /\ segs \in UNION {[1..n -> SegKinds] : n \in 1..MaxSegs}
                \cup {<<"TailA">> \o t : t \in UNION {[1..n -> SegKinds] : n \in 1..(MaxSegs - 1)}}
    /\ arrived = 0
    /\ packet_buffer = <<>>
    /\ returned = <<>>
    /\ idle_calls = 0
    /\ serial_errors = 0
    /\ mismatch_seen = FALSE
    /\ main_running = TRUE
    /\ PipeQuiet
    /\ SupQuiet
    /\ CfgQuiet
    /\ StartQuiet
    /\ ReadQuiet
    /\ MoreQuiet

\* an iteration whose ser.read delivers n > 0 new bytes
MainLoopRead ==
    /\ main_running
    /\ \E n \in ChunkSizes(Len(Stream) - arrived) :
         LET r == read_one_packet(packet_buffer, n) IN
         /\ arrived' = arrived + n
         /\ packet_buffer' = r.buf
         /\ returned' = IF r.kind = "packet"
                        THEN Append(returned, [raw |-> r.raw, off |-> r.off])
                        ELSE returned
         /\ mismatch_seen' = (mismatch_seen \/ r.kind = "possible_baudrate_mismatch")
         /\ main_running' = MainKeepsRunning(r.kind)
    /\ idle_calls' = 0
    /\ UNCHANGED <<segs, serial_errors>>
    /\ UNCHANGED notMain

\* an iteration whose ser.read times out: read_one_packet returns None
MainLoopIdle ==
    /\ main_running
    /\ idle_calls < MaxIdle
    /\ packet_buffer' = read_one_packet(packet_buffer, 0).buf
    /\ idle_calls' = idle_calls + 1
    /\ UNCHANGED <<segs, arrived, returned, serial_errors, mismatch_seen, main_running>>
    /\ UNCHANGED notMain

\* an iteration whose ser.read raises SerialException (lines 120-123): the
\* buffer is cleared, a serial_error result is logged and the loop goes on
MainLoopSerialError ==
    /\ main_running
    /\ serial_errors < MaxSerialErrors
    /\ packet_buffer' = <<>>
    /\ serial_errors' = serial_errors + 1
    /\ main_running' = MainKeepsRunning("serial_error")
    /\ UNCHANGED <<segs, arrived, returned, idle_calls, mismatch_seen>>
    /\ UNCHANGED notMain

MainNext == MainLoopRead \/ MainLoopIdle \/ MainLoopSerialError

SpecMainLoop == MainInit /\ [][MainNext]_vars

(***************************************************************************)
(* Properties of the framer and the main loop (SpecMainLoop)               *)
(***************************************************************************)
ReturnedOffsets == [k \in 1..Len(returned) |-> returned[k].off]

\* the stream holds only whole valid packets and single garbage bytes
CleanStream == \A i \in 1..Len(segs) : segs[i] \in {"A", "B", "G1"}

\* C1: every packet the framer returns is an 11-byte contiguous slice of the
\* received bytes whose first byte is 0x55 and whose last byte is the low 8
\* bits of the sum of the first ten; a candidate that fails is never returned
C1_ReturnedPacketsAreValidSlices ==
    \A k \in 1..Len(returned) :
        LET p == returned[k] IN
        /\ Len(p.raw) = DATA_PACKET_LENGTH
        /\ p.off >= 0 /\ p.off + DATA_PACKET_LENGTH <= arrived
        /\ p.raw = SubSeq(Stream, p.off + 1, p.off + DATA_PACKET_LENGTH)
        /\ p.raw[1] = DATA_HEADER_BYTE
        /\ p.raw[DATA_PACKET_LENGTH] = SumSeq(SubSeq(p.raw, 1, DATA_PACKET_LENGTH - 1)) % 256

\* a corrupted packet has fully arrived and a packet after it was returned
C1_Witness ==
    \E i \in 1..Len(segs) :
        /\ segs[i] = "Bad"
        /\ SegOffset(i) + DATA_PACKET_LENGTH <= arrived
        /\ \E k \in 1..Len(returned) : returned[k].off > SegOffset(i)

\* C7 (as stated): for a stream of valid packets with garbage before or
\* between them, repeated calls return every packet exactly once, in arrival
\* order; checked once the whole stream has arrived and a further call was made
C7_EveryPacketReturnedOnce ==
    (/\ CleanStream
     /\ serial_errors = 0
     /\ arrived = Len(Stream)
     /\ idle_calls >= 1)
        => ReturnedOffsets = BoundarySeq

C9_MismatchInformational == mismatch_seen => main_running

(***************************************************************************)
(* core/async_data_manager.py: the four pipeline threads.  queue.put has   *)
(* no timeout: it blocks while the queue is full.  queue.get(timeout=1)    *)
(* raises Empty when the queue stayed empty.                               *)
(***************************************************************************)
\* what read_raw_packet hands to the reader: a raw packet of one of these kinds
RawKinds == {"ACC", "ANGLE", "BAD"}

Full(q) == Len(q) >= QCap

\* a queue whose put places the item at the front
put_AtFront(q, item) == <<item>> \o q

\* Queue.put: the item goes to the back of the queue
put(q, item) == Append(q, item)

\* a storage manager that keeps the row it is given and writes the row of a
\* sample only when the next sample is handed to it
store_and_prepare_for_transmission_Deferred(log, raw_packet) ==
    LET puts == {i \in 1..Len(log) : log[i].ev = "put"}
    IN IF puts = {} THEN log
       ELSE Append(log, [ev |-> "store",
                         id |-> log[CHOOSE i \in puts : \A j \in puts : j <= i].id])

\* DecoderThread.run lines 129-130: the sample is handed to the storage
\* manager, which writes its row before it returns
store_and_prepare_for_transmission(log, raw_packet) ==
    Append(log, [ev |-> "store", id |-> raw_packet.id])

\* SensorDataProcessor.process_new_sample: the sample is appended to the
\* buffer; once the buffer holds a frame the last frame is run through the
\* integrators (frame_count goes up by one) and a result is returned that
\* carries rls_warmed_up
process_new_sample(n, frames) ==
    LET emits == n + 1 >= rls_sample_frame_size
        fc == IF emits /\ frames < warmup_frames THEN frames + 1 ELSE frames
    IN [len |-> IF n < rls_sample_frame_size THEN n + 1 ELSE n,
        result |-> emits,
        frame_count |-> fc,
        rls_warmed_up |-> emits /\ fc >= warmup_frames]

\* DecoderThread.run lines 154-156, ProcessorThread.run lines 250-252:
\* "except Exception: ... self.running_flag.clear()"
FlagAfterStageError(flag) == FALSE

PipeInit ==
    /\ MainQuiet
    /\ SupQuiet
    /\ CfgQuiet
    /\ StartQuiet
    /\ ReadQuiet
    /\ MoreQuiet
    /\ running_flag = TRUE
    /\ raw_data_queue = <<>> /\ decoded_data_queue = <<>> /\ mqtt_queue = <<>>
    /\ publisher \in {"ok", "None"}
    /\ pcR = "loop" /\ pcD = "loop" /\ pcP = "loop" /\ pcM = "start"
    /\ r_item = NoItem /\ d_item = NoItem /\ p_item = NoItem
    /\ raw_packet_count = 0
    /\ acc_buffer_len = 0
    /\ frame_count = 0
    /\ stage_errors = 0
    /\ events = NoEvents

\* the operator's SIGINT/SIGTERM handler clears the shared flag
OperatorShutdown ==
    /\ running_flag
    /\ running_flag' = FALSE
    /\ events' = [events EXCEPT !.operator_shutdown = TRUE]
    /\ UNCHANGED <<raw_data_queue, decoded_data_queue, mqtt_queue, publisher, pcR, pcD,
                   pcP, pcM, r_item, d_item, p_item, raw_packet_count, acc_buffer_len, frame_count,
                   stage_errors>>
    /\ UNCHANGED notPipe

\* ---- SerialReaderThread.run ----
\* the loop test passed and read_raw_packet returned a packet
R_Read ==
    /\ pcR = "loop" /\ running_flag
    /\ raw_packet_count < MaxPackets
    /\ \E k \in RawKinds : r_item' = [kind |-> k, id |-> raw_packet_count + 1]
    /\ raw_packet_count' = raw_packet_count + 1
    /\ pcR' = "put"
    /\ UNCHANGED <<running_flag, raw_data_queue, decoded_data_queue, mqtt_queue, publisher,
                   pcD, pcP, pcM, d_item, p_item, acc_buffer_len, frame_count, stage_errors, events>>
    /\ UNCHANGED notPipe

\* raw_data_queue.put(raw_packet)
R_Put ==
    /\ pcR = "put" /\ ~Full(raw_data_queue)
    /\ raw_data_queue' = put(raw_data_queue, r_item)
    /\ r_item' = NoItem
    /\ pcR' = "loop"
    /\ UNCHANGED <<running_flag, decoded_data_queue, mqtt_queue, publisher, pcD, pcP, pcM,
                   d_item, p_item, raw_packet_count, acc_buffer_len, frame_count, stage_errors, events>>
    /\ UNCHANGED notPipe

\* the port is found closed, or the read raises: the flag is cleared, break
R_TransportFault ==
    /\ pcR = "loop" /\ running_flag
    /\ running_flag' = FALSE
    /\ events' = [events EXCEPT !.transport_fault = TRUE]
    /\ pcR' = "done"
    /\ UNCHANGED <<raw_data_queue, decoded_data_queue, mqtt_queue, publisher, pcD, pcP, pcM,
                   r_item, d_item, p_item, raw_packet_count, acc_buffer_len, frame_count, stage_errors>>
    /\ UNCHANGED notPipe

\* the loop test finds the flag cleared
R_Exit ==
    /\ pcR = "loop" /\ ~running_flag
    /\ pcR' = "done"
    /\ UNCHANGED <<running_flag, raw_data_queue, decoded_data_queue, mqtt_queue, publisher,
                   pcD, pcP, pcM, r_item, d_item, p_item, raw_packet_count, acc_buffer_len, frame_count,
                   stage_errors, events>>
    /\ UNCHANGED notPipe

\* ---- DecoderThread.run ----
\* get() returned a packet; it is decoded, and an ACC sample is stored
D_Get ==
    /\ pcD = "loop" /\ raw_data_queue # <<>>
    /\ raw_data_queue' = Tail(raw_data_queue)
    /\ LET raw_packet == Head(raw_data_queue) IN
       \/ /\ raw_packet.kind = "BAD"          \* lines 105-109: logged, continue
          /\ events' = [events EXCEPT !.decode_error = TRUE]
          /\ UNCHANGED <<pcD, d_item, running_flag, stage_errors>>
       \/ /\ raw_packet.kind = "ANGLE"     \* lines 112-114: not ACC, continue
          /\ events' = [events EXCEPT !.decoded = @ + 1,
                                      !.d_log = Append(@, [ev |-> "angle", id |-> raw_packet.id])]
          /\ UNCHANGED <<pcD, d_item, running_flag, stage_errors>>
       \/ /\ raw_packet.kind = "ACC"       \* lines 116-134: stored, then put
          /\ events' = [events EXCEPT !.decoded = @ + 1,
                                      !.d_log = store_and_prepare_for_transmission(@, raw_packet)]
          /\ d_item' = [kind |-> "sample", id |-> raw_packet.id]
          /\ pcD' = "put"
          /\ UNCHANGED <<running_flag, stage_errors>>
       \/ /\ raw_packet.kind = "ACC"       \* the storage call raises
          /\ stage_errors < MaxStageErrors
          /\ stage_errors' = stage_errors + 1
          /\ events' = [events EXCEPT !.stage_error = TRUE]
          /\ running_flag' = FlagAfterStageError(running_flag)
          /\ UNCHANGED <<pcD, d_item>>
    /\ UNCHANGED <<decoded_data_queue, mqtt_queue, publisher, pcR, pcP, pcM, r_item, p_item,
                   raw_packet_count, acc_buffer_len, frame_count>>
    /\ UNCHANGED notPipe

\* decoded_data_queue.put(decoded_item)
D_Put ==
    /\ pcD = "put" /\ ~Full(decoded_data_queue)
    /\ decoded_data_queue' = put(decoded_data_queue, d_item)
    /\ events' = [events EXCEPT !.d_log = Append(@, [ev |-> "put", id |-> d_item.id])]
    /\ d_item' = NoItem
    /\ pcD' = "loop"
    /\ UNCHANGED <<running_flag, raw_data_queue, mqtt_queue, publisher, pcR, pcP, pcM,
                   r_item, p_item, raw_packet_count, acc_buffer_len, frame_count, stage_errors>>
    /\ UNCHANGED notPipe

\* the loop test fails, or get() raises Empty with the flag cleared: break
D_Exit ==
    /\ pcD = "loop" /\ ~running_flag /\ raw_data_queue = <<>>
    /\ pcD' = "sentinel"
    /\ UNCHANGED <<running_flag, raw_data_queue, decoded_data_queue, mqtt_queue, publisher,
                   pcR, pcP, pcM, r_item, d_item, p_item, raw_packet_count, acc_buffer_len, frame_count,
                   stage_errors, events>>
    /\ UNCHANGED notPipe

\* lines 160-161: decoded_data_queue.put(None)
D_Sentinel ==
    /\ pcD = "sentinel" /\ ~Full(decoded_data_queue)
    /\ decoded_data_queue' = put(decoded_data_queue, NoItem)
    /\ pcD' = "done"
    /\ UNCHANGED <<running_flag, raw_data_queue, mqtt_queue, publisher, pcR, pcP, pcM,
                   r_item, d_item, p_item, raw_packet_count, acc_buffer_len, frame_count, stage_errors,
                   events>>
    /\ UNCHANGED notPipe

\* ---- ProcessorThread.run ----
\* get() returned an item: the sentinel ends the loop, a sample is processed
P_Get ==
    /\ pcP = "loop" /\ decoded_data_queue # <<>>
    /\ decoded_data_queue' = Tail(decoded_data_queue)
    /\ LET decoded_item == Head(decoded_data_queue)
           r == process_new_sample(acc_buffer_len, frame_count)
           call == [ev |-> "process", id |-> decoded_item.id, result |-> r.result,
                    rls_warmed_up |-> r.rls_warmed_up] IN
       \/ /\ decoded_item = NoItem         \* lines 193-195: break
          /\ events' = [events EXCEPT !.p_got_sentinel = TRUE]
          /\ pcP' = "sentinel"
          /\ UNCHANGED <<p_item, acc_buffer_len, frame_count, running_flag, stage_errors>>
       \/ /\ decoded_item # NoItem /\ ~r.result   \* no result yet
          /\ acc_buffer_len' = r.len
          /\ frame_count' = r.frame_count
          /\ events' = [events EXCEPT !.p_log = Append(@, call)]
          /\ UNCHANGED <<pcP, p_item, running_flag, stage_errors>>
       \/ /\ decoded_item # NoItem /\ r.result    \* lines 205-230: stored, then put
          /\ acc_buffer_len' = r.len
          /\ frame_count' = r.frame_count
          /\ events' = [events EXCEPT !.p_log = Append(@, call)]
          /\ p_item' = [kind |-> "result", id |-> decoded_item.id]
          /\ pcP' = "put"
          /\ UNCHANGED <<running_flag, stage_errors>>
       \/ /\ decoded_item # NoItem         \* the processor or the storage raises
          /\ stage_errors < MaxStageErrors
          /\ stage_errors' = stage_errors + 1
          /\ events' = [events EXCEPT !.stage_error = TRUE]
          /\ running_flag' = FlagAfterStageError(running_flag)
          /\ UNCHANGED <<pcP, p_item, acc_buffer_len, frame_count>>
    /\ UNCHANGED <<raw_data_queue, mqtt_queue, publisher, pcR, pcD, pcM, r_item, d_item,
                   raw_packet_count>>
    /\ UNCHANGED notPipe

\* mqtt_queue.put(mqtt_payload)
P_Put ==
    /\ pcP = "put" /\ ~Full(mqtt_queue)
    /\ mqtt_queue' = put(mqtt_queue, p_item)
    /\ events' = [events EXCEPT !.p_log = Append(@, [ev |-> "put", id |-> p_item.id,
                                                    result |-> TRUE, rls_warmed_up |-> FALSE])]
    /\ p_item' = NoItem
    /\ pcP' = "loop"
    /\ UNCHANGED <<running_flag, raw_data_queue, decoded_data_queue, publisher, pcR, pcD, pcM,
                   r_item, d_item, raw_packet_count, acc_buffer_len, frame_count, stage_errors>>
    /\ UNCHANGED notPipe

\* the loop test fails, or get() raises Empty with the flag cleared: break
P_Exit ==
    /\ pcP = "loop" /\ ~running_flag /\ decoded_data_queue = <<>>
    /\ pcP' = "sentinel"
    /\ UNCHANGED <<running_flag, raw_data_queue, decoded_data_queue, mqtt_queue, publisher,
                   pcR, pcD, pcM, r_item, d_item, p_item, raw_packet_count, acc_buffer_len, frame_count,
                   stage_errors, events>>
    /\ UNCHANGED notPipe

\* lines 255-256: mqtt_queue.put(None)
P_Sentinel ==
    /\ pcP = "sentinel" /\ ~Full(mqtt_queue)
    /\ mqtt_queue' = put(mqtt_queue, NoItem)
    /\ pcP' = "done"
    /\ UNCHANGED <<running_flag, raw_data_queue, decoded_data_queue, publisher, pcR, pcD, pcM,
                   r_item, d_item, p_item, raw_packet_count, acc_buffer_len, frame_count, stage_errors,
                   events>>
    /\ UNCHANGED notPipe

\* ---- MqttPublisherThread.run ----
\* lines 274-278: without a publisher the thread returns at once
M_Start ==
    /\ pcM = "start"
    /\ pcM' = IF publisher = "None" THEN "done" ELSE "loop"
    /\ UNCHANGED <<running_flag, raw_data_queue, decoded_data_queue, mqtt_queue, publisher,
                   pcR, pcD, pcP, r_item, d_item, p_item, raw_packet_count, acc_buffer_len, frame_count,
                   stage_errors, events>>
    /\ UNCHANGED notPipe

\* get() returned an item: the sentinel ends the loop, a payload is published
M_Get ==
    /\ pcM = "loop" /\ mqtt_queue # <<>>
    /\ mqtt_queue' = Tail(mqtt_queue)
    /\ LET processed_data == Head(mqtt_queue) IN
       \/ /\ processed_data = NoItem       \* lines 285-287: break
          /\ events' = [events EXCEPT !.m_got_sentinel = TRUE]
          /\ pcM' = "done"
          /\ UNCHANGED stage_errors
       \/ /\ processed_data # NoItem       \* published
          /\ events' = [events EXCEPT !.published = @ + 1,
                                      !.m_log = Append(@, processed_data.id)]
          /\ UNCHANGED <<pcM, stage_errors>>
       \/ /\ processed_data # NoItem       \* publish raises: lines 306-307 log it
          /\ stage_errors < MaxStageErrors
          /\ stage_errors' = stage_errors + 1
          /\ events' = [events EXCEPT !.stage_error = TRUE]
          /\ UNCHANGED pcM
    /\ UNCHANGED <<running_flag, raw_data_queue, decoded_data_queue, publisher, pcR, pcD, pcP,
                   r_item, d_item, p_item, raw_packet_count, acc_buffer_len, frame_count>>
    /\ UNCHANGED notPipe

\* the loop test fails, or get() raises Empty with the flag cleared: break
M_Exit ==
    /\ pcM = "loop" /\ ~running_flag /\ mqtt_queue = <<>>
    /\ pcM' = "done"
    /\ UNCHANGED <<running_flag, raw_data_queue, decoded_data_queue, mqtt_queue, publisher,
                   pcR, pcD, pcP, r_item, d_item, p_item, raw_packet_count, acc_buffer_len, frame_count,
                   stage_errors, events>>
    /\ UNCHANGED notPipe

PipeNext ==
    \/ OperatorShutdown
    \/ R_Read \/ R_Put \/ R_TransportFault \/ R_Exit
    \/ D_Get \/ D_Put \/ D_Exit \/ D_Sentinel
    \/ P_Get \/ P_Put \/ P_Exit \/ P_Sentinel
    \/ M_Start \/ M_Get \/ M_Exit

SpecPipeline == PipeInit /\ [][PipeNext]_vars

(***************************************************************************)
(* Properties of the pipeline (SpecPipeline)                               *)
(***************************************************************************)
\* C2 (as stated): after the run flag is cleared the decoder decodes every
\* packet the reader has placed or is still placing on Q_raw before it
\* exits, so that once both threads have ended no packet is left on Q_raw
C2_NoPacketLeftOnQraw ==
    (pcR = "done" /\ pcD = "done") => raw_data_queue = <<>>

\* C3 (as stated): the processor leaves its loop only after it dequeued the
\* sentinel from Q_dec, and a publisher that was started leaves its loop only
\* after it dequeued the sentinel from Q_mqtt
C3_StopOnlyAfterSentinel ==
    /\ pcP \in {"sentinel", "done"} => events.p_got_sentinel
    /\ (pcM = "done" /\ publisher = "ok") => events.m_got_sentinel

\* a stage waits in put() on a full queue whose consumer has ended
BlockedForever ==
    \/ pcR = "put" /\ Full(raw_data_queue) /\ pcD \in {"sentinel", "done"}
    \/ pcD \in {"put", "sentinel"} /\ Full(decoded_data_queue) /\ pcP \in {"sentinel", "done"}
    \/ pcP \in {"put", "sentinel"} /\ Full(mqtt_queue) /\ pcM = "done"

\* C4 (as stated): once the run flag is false no stage waits forever on a
\* queue operation, also when a bounded queue is full or its consumer ended
C4_NoStageWaitsForever == ~running_flag => ~BlockedForever

\* C5 (as stated): an error inside a stage that is not a transport error is
\* caught and logged and does not clear the run flag
C5_StageErrorKeepsRunning ==
    (events.stage_error /\ ~events.transport_fault /\ ~events.operator_shutdown)
        => running_flag

(***************************************************************************)
(* core/connection_manager.py: the reconnection supervisor.  No module in  *)
(* the repository calls auto_reconnect; the two triggers below follow the  *)
(* specification's reconnection policy: the supervisor is signalled when   *)
(* the reader thread ended on a transport error, and when the count of     *)
(* consecutive read failures reaches the threshold.  auto_reconnect is     *)
(* handed the application's one run flag.                                  *)
(***************************************************************************)
\* handle_serial_error: True when a reconnection is needed
handle_serial_error(failures, max_failures) == failures >= max_failures

\* a delay that doubles after each failed attempt
next_reconnect_delay_Doubling(delay) ==
    IF 2 * delay < MAX_RECONNECT_DELAY
    THEN 2 * delay ELSE MAX_RECONNECT_DELAY

\* auto_reconnect line 245: reconnect_delay = min(reconnect_delay + 1, 10)
next_reconnect_delay(delay) ==
    IF delay + 1 < MAX_RECONNECT_DELAY
    THEN delay + 1 ELSE MAX_RECONNECT_DELAY

\* auto_reconnect line 225: "while running_flag.is_set()"
AutoReconnectMayAttempt(flag) == flag

\* the values auto_reconnect starts from (lines 222-223)
EnterAutoReconnect ==
    /\ pcS' = "auto_reconnect"
    /\ reconnect_delay' = INITIAL_RECONNECT_DELAY
    /\ attempt_count' = 0
    /\ sup_hist' = [sup_hist EXCEPT !.slept = <<>>, !.episodes = @ + 1]

\* glob.glob('/dev/ttyUSB*'), sorted
UsbPorts == <<"/dev/ttyUSB0", "/dev/ttyUSB1">>

\* find_available_ports: the accessible ports in sorted order, the preferred
\* port moved to the front when it is among them
find_available_ports(present, preferred) ==
    LET ports == SelectSeq(UsbPorts, LAMBDA p : p \in present) IN
    IF preferred \in present
    THEN <<preferred>> \o SelectSeq(ports, LAMBDA p : p # preferred)
    ELSE ports

\* find_active_port: the first port that delivers data, else the first port,
\* "None" when there is no port
find_active_port(present, preferred, with_data) ==
    LET available_ports == find_available_ports(present, preferred)
        live == SelectSeq(available_ports, LAMBDA p : p \in with_data) IN
    IF available_ports = <<>> THEN "None"
    ELSE IF live # <<>> THEN Head(live)
    ELSE Head(available_ports)

\* establish_connection: the old connection is closed, the active port is
\* opened; [ser, current_port] afterwards
establish_connection(present, preferred, with_data, openable) ==
    LET active_port == find_active_port(present, preferred, with_data) IN
    IF active_port # "None" /\ active_port \in openable
    THEN [ser |-> "open", current_port |-> active_port]
    ELSE [ser |-> "None", current_port |-> "None"]

SupInit ==
    /\ MainQuiet
    /\ PipeQuiet
    /\ CfgQuiet
    /\ StartQuiet
    /\ ReadQuiet
    /\ MoreQuiet
    /\ pcS = "watch"
    /\ ser = "open"
    /\ preferred_port \in Range(UsbPorts)
    /\ current_port \in Range(UsbPorts)
    /\ consecutive_failures = 0
    /\ attempt_count = 0
    /\ reconnect_delay = INITIAL_RECONNECT_DELAY
    /\ reconnection_attempts = 0
    /\ sup_hist = NoSupHist

SupPipeUnchanged ==
    UNCHANGED <<raw_data_queue, decoded_data_queue, mqtt_queue, publisher, pcD, pcP, pcM,
                r_item, d_item, p_item, raw_packet_count, acc_buffer_len, frame_count, stage_errors>>

\* the operator's signal handler clears the run flag
Sup_OperatorShutdown ==
    /\ running_flag
    /\ running_flag' = FALSE
    /\ events' = [events EXCEPT !.operator_shutdown = TRUE]
    /\ UNCHANGED <<pcR, varsMain, varsSup, varsCfg, varsStart, varsRead, varsMore>>
    /\ SupPipeUnchanged

\* SerialReaderThread.run lines 55-58 and 69-72: on a closed port or an
\* exception the reader clears the run flag and ends
Sup_ReaderTransportFault ==
    /\ pcR = "loop" /\ running_flag
    /\ running_flag' = FALSE
    /\ events' = [events EXCEPT !.transport_fault = TRUE]
    /\ pcR' = "done"
    /\ UNCHANGED <<varsMain, varsSup, varsCfg, varsStart, varsRead, varsMore>>
    /\ SupPipeUnchanged

\* the reader's loop test finds the flag cleared
Sup_ReaderExit ==
    /\ pcR = "loop" /\ ~running_flag
    /\ pcR' = "done"
    /\ UNCHANGED <<running_flag, events, varsMain, varsSup, varsCfg, varsStart, varsRead, varsMore>>
    /\ SupPipeUnchanged

\* the supervisor is signalled that the reader ended on a transport error
Sup_OnReaderFault ==
    /\ pcS = "watch" /\ pcR = "done" /\ events.transport_fault
    /\ sup_hist.episodes < MaxEpisodes
    /\ EnterAutoReconnect
    /\ UNCHANGED <<ser, current_port, preferred_port, consecutive_failures,
                   reconnection_attempts>>
    /\ UNCHANGED <<running_flag, pcR, events, varsMain, varsCfg, varsStart, varsRead, varsMore>>
    /\ SupPipeUnchanged

\* a read failed while the reader runs: handle_serial_error decides between
\* a transient retry and a reconnection
Sup_OnSerialError ==
    /\ pcS = "watch" /\ pcR = "loop" /\ running_flag
    /\ consecutive_failures < MAX_FAILURES
    /\ sup_hist.episodes < MaxEpisodes
    /\ consecutive_failures' = consecutive_failures + 1
    /\ IF handle_serial_error(consecutive_failures + 1, MAX_FAILURES)
       THEN EnterAutoReconnect
       ELSE UNCHANGED <<pcS, reconnect_delay, attempt_count, sup_hist>>
    /\ UNCHANGED <<ser, current_port, preferred_port, reconnection_attempts>>
    /\ UNCHANGED <<running_flag, pcR, events, varsMain, varsCfg, varsStart, varsRead, varsMore>>
    /\ SupPipeUnchanged

\* a read succeeded: the failures are no longer consecutive
Sup_ReadOk ==
    /\ pcS = "watch" /\ pcR = "loop" /\ running_flag
    /\ consecutive_failures > 0
    /\ consecutive_failures' = 0
    /\ UNCHANGED <<pcS, ser, current_port, preferred_port, attempt_count, reconnect_delay,
                   reconnection_attempts, sup_hist>>
    /\ UNCHANGED <<running_flag, pcR, events, varsMain, varsCfg, varsStart, varsRead, varsMore>>
    /\ SupPipeUnchanged

\* one iteration of the auto_reconnect loop (lines 225-245): reconnect()
\* closes the port and runs establish_connection, which opens a port or not
AutoReconnect_Attempt ==
    /\ pcS = "auto_reconnect" /\ AutoReconnectMayAttempt(running_flag)
    /\ attempt_count < MaxAttempts
    /\ attempt_count' = attempt_count + 1
    /\ \E present \in SUBSET Range(UsbPorts) :
       \E with_data \in SUBSET present :
       \E openable \in SUBSET present :
         LET new_serial == establish_connection(present, preferred_port, with_data, openable) IN
         /\ ser' = new_serial.ser
         /\ current_port' = new_serial.current_port
         /\ IF new_serial.ser = "open"
            THEN /\ reconnection_attempts' = 0
                 /\ consecutive_failures' = 0
                 /\ pcS' = "watch"
                 /\ UNCHANGED reconnect_delay
                 /\ sup_hist' = [sup_hist EXCEPT !.established = TRUE, !.present = present,
                                                 !.with_data = with_data, !.openable = openable]
            ELSE /\ reconnection_attempts' = reconnection_attempts + 1
                 /\ reconnect_delay' = next_reconnect_delay(reconnect_delay)
                 /\ sup_hist' = [sup_hist EXCEPT !.established = TRUE, !.present = present,
                                                 !.with_data = with_data, !.openable = openable,
                                                 !.slept = Append(@, reconnect_delay)]
                 /\ UNCHANGED <<pcS, consecutive_failures>>
    /\ UNCHANGED preferred_port
    /\ UNCHANGED <<running_flag, pcR, events, varsMain, varsCfg, varsStart, varsRead, varsMore>>
    /\ SupPipeUnchanged

\* lines 247-248: the loop test fails, auto_reconnect returns None
AutoReconnect_Stop ==
    /\ pcS = "auto_reconnect" /\ ~AutoReconnectMayAttempt(running_flag)
    /\ pcS' = "stopped"
    /\ UNCHANGED <<ser, current_port, preferred_port, consecutive_failures, attempt_count,
                   reconnect_delay, reconnection_attempts, sup_hist>>
    /\ UNCHANGED <<running_flag, pcR, events, varsMain, varsCfg, varsStart, varsRead, varsMore>>
    /\ SupPipeUnchanged

SupNext ==
    \/ Sup_OperatorShutdown \/ Sup_ReaderTransportFault \/ Sup_ReaderExit
    \/ Sup_OnReaderFault \/ Sup_OnSerialError \/ Sup_ReadOk
    \/ AutoReconnect_Attempt \/ AutoReconnect_Stop

SpecSupervisor == SupInit /\ [][SupNext]_vars

\* C6 (as stated): whenever the reader ended on a transport error, the
\* supervisor closes the port and re-runs the establish sequence; it gives up
\* only when the operator requested the shutdown
C6_ReconnectAfterReaderFault ==
    (pcS = "stopped" /\ events.transport_fault /\ ~events.operator_shutdown)
        => attempt_count >= 1

(***************************************************************************)
(* sensors/hwt905_config_manager.py, mqtt/config/config_command_handler.py *)
(* and the startup sequence of main.py.  A step is one call of             *)
(* _send_write_command; failures is the number of write attempts that fail *)
(* before one succeeds.                                                    *)
(***************************************************************************)
Failures == {0, 1, DEFAULT_RETRIES, CRITICAL_RETRIES}

\* _send_write_command with a loop that goes on until a write is complete
send_write_command_UntilWritten(register_address, data_low, data_high, retries, failures) ==
    [cmd |-> <<COMMAND_HEADER_BYTE1, COMMAND_HEADER_BYTE2, register_address % 256,
               data_low % 256, data_high % 256>>,
     attempts |-> failures + 1,
     ok |-> TRUE]

\* _send_write_command: up to `retries` attempts, True on the first that
\* writes all five bytes
send_write_command(register_address, data_low, data_high, retries, failures) ==
    [cmd |-> <<COMMAND_HEADER_BYTE1, COMMAND_HEADER_BYTE2, register_address % 256,
               data_low % 256, data_high % 256>>,
     attempts |-> IF failures < retries THEN failures + 1 ELSE retries,
     ok |-> failures < retries]

unlock_sensor_for_config(failures) ==
    send_write_command(REG_KEY, UNLOCK_KEY_VALUE_DATAL, UNLOCK_KEY_VALUE_DATAH,
                       DEFAULT_RETRIES, failures)

save_configuration(failures) ==
    send_write_command(REG_SAVE, SAVE_CONFIG_VALUE % 256, (SAVE_CONFIG_VALUE \div 256) % 256,
                       DEFAULT_RETRIES, failures)

set_update_rate(rate_value, failures) ==
    send_write_command(REG_RRATE, rate_value % 256, (rate_value \div 256) % 256,
                       DEFAULT_RETRIES, failures)

set_baudrate(baudrate_value_const, failures) ==
    send_write_command(REG_BAUD, baudrate_value_const % 256,
                       (baudrate_value_const \div 256) % 256, DEFAULT_RETRIES, failures)

set_output_content(rsw_value, failures) ==
    send_write_command(REG_RSW, rsw_value % 256, (rsw_value \div 256) % 256,
                       DEFAULT_RETRIES, failures)

restart_sensor(failures) ==
    send_write_command(REG_SAVE, RESTART_SENSOR_VALUE % 256,
                       (RESTART_SENSOR_VALUE \div 256) % 256, CRITICAL_RETRIES, failures)

\* factory_reset: unlock, factory-reset write, save, restart; the first
\* failing step returns False
factory_reset(f) ==
    LET s1 == unlock_sensor_for_config(f[1])
        s2 == send_write_command(REG_SAVE, FACTORY_RESET_VALUE % 256,
                                 (FACTORY_RESET_VALUE \div 256) % 256, CRITICAL_RETRIES, f[2])
        s3 == save_configuration(f[3])
        s4 == restart_sensor(f[4])
    IN IF ~s1.ok THEN [trace |-> <<s1>>, ret |-> "False"]
       ELSE IF ~s2.ok THEN [trace |-> <<s1, s2>>, ret |-> "False"]
       ELSE IF ~s3.ok THEN [trace |-> <<s1, s2, s3>>, ret |-> "False"]
       ELSE IF ~s4.ok THEN [trace |-> <<s1, s2, s3, s4>>, ret |-> "False"]
       ELSE [trace |-> <<s1, s2, s3, s4>>, ret |-> "True"]

\* ConfigCommandHandler.rate_map and baudrate_map
rate_map == (10 :> RATE_OUTPUT_10HZ) @@ (50 :> RATE_OUTPUT_50HZ)
            @@ (100 :> RATE_OUTPUT_100HZ) @@ (200 :> RATE_OUTPUT_200HZ)

baudrate_map == (9600 :> BAUD_RATE_9600) @@ (115200 :> BAUD_RATE_115200)
                @@ (230400 :> BAUD_RATE_230400)

\* the shape shared by _handle_set_rate, _handle_set_output and
\* _handle_set_baudrate: unlock, the register write, then save (its result
\* is not looked at)
HandleSet_NoSave(write_step, f) ==
    LET s1 == unlock_sensor_for_config(f[1])
    IN IF ~s1.ok THEN [trace |-> <<s1>>, ret |-> "error"]
       ELSE IF write_step.ok THEN [trace |-> <<s1, write_step>>, ret |-> "success"]
       ELSE [trace |-> <<s1, write_step>>, ret |-> "error"]

HandleSet(write_step, f) ==
    LET s1 == unlock_sensor_for_config(f[1])
        s3 == save_configuration(f[3])
    IN IF ~s1.ok THEN [trace |-> <<s1>>, ret |-> "error"]
       ELSE IF write_step.ok THEN [trace |-> <<s1, write_step, s3>>, ret |-> "success"]
       ELSE [trace |-> <<s1, write_step>>, ret |-> "error"]

handle_set_rate(rate, f) ==
    IF rate \notin DOMAIN rate_map THEN [trace |-> <<>>, ret |-> "error"]
    ELSE HandleSet(set_update_rate(rate_map[rate], f[2]), f)

handle_set_output(rsw_value, f) == HandleSet(set_output_content(rsw_value, f[2]), f)

handle_set_baudrate(baudrate, f) ==
    IF baudrate \notin DOMAIN baudrate_map THEN [trace |-> <<>>, ret |-> "error"]
    ELSE HandleSet(set_baudrate(baudrate_map[baudrate], f[2]), f)

\* _handle_factory_reset: unlock, then factory_reset (which unlocks again)
handle_factory_reset(f0, f) ==
    LET s0 == unlock_sensor_for_config(f0)
        r == factory_reset(f)
    IN IF ~s0.ok THEN [trace |-> <<s0>>, ret |-> "error"]
       ELSE [trace |-> <<s0>> \o r.trace,
             ret |-> IF r.ret = "True" THEN "success" ELSE "error"]

\* main.py lines 252-266: unknown rates fall back to 100 Hz; after the
\* unlock each of the three steps is sent and a failure is only logged
startup_configuration(target_output_rate, rsw_value, f) ==
    LET rate_const == IF target_output_rate \in DOMAIN rate_map
                      THEN rate_map[target_output_rate] ELSE RATE_OUTPUT_100HZ
        s1 == unlock_sensor_for_config(f[1])
    IN IF s1.ok
       THEN [trace |-> <<s1, set_update_rate(rate_const, f[2]),
                         set_output_content(rsw_value, f[3]), save_configuration(f[4])>>,
             ret |-> "continues"]
       ELSE [trace |-> <<s1>>, ret |-> "continues"]

FailureChoices == [1..4 -> Failures]

\* _handle_raw_hex: five bytes are required; the register and the two data
\* bytes are taken from positions 3..5 and sent with _send_write_command,
\* which puts its own FF AA in front
handle_raw_hex(command_bytes, failures) ==
    IF Len(command_bytes) # 5 THEN [trace |-> <<>>, ret |-> "error"]
    ELSE LET s == send_write_command(command_bytes[3], command_bytes[4], command_bytes[5],
                                     DEFAULT_RETRIES, failures)
         IN [trace |-> <<s>>, ret |-> IF s.ok THEN "success" ELSE "error"]

\* the hex commands an operator sends: the unlock, an RRATE write, the save,
\* one that is a byte short, and five bytes that do not start with FF AA
RawHexCommands ==
    { <<255, 170, REG_KEY, UNLOCK_KEY_VALUE_DATAL, UNLOCK_KEY_VALUE_DATAH>>,
      <<255, 170, REG_RRATE, RATE_OUTPUT_200HZ, 0>>,
      <<255, 170, REG_SAVE, SAVE_CONFIG_VALUE, 0>>,
      <<255, 170, REG_RRATE, RATE_OUTPUT_200HZ>>,
      <<85, 170, REG_RRATE, RATE_OUTPUT_200HZ, 0>> }

\* a command that was written to the port completely
Sent(step) == step.ok

IsUnlock(step) ==
    Sent(step) /\ step.cmd = <<COMMAND_HEADER_BYTE1, COMMAND_HEADER_BYTE2, REG_KEY,
                               UNLOCK_KEY_VALUE_DATAL, UNLOCK_KEY_VALUE_DATAH>>

IsSave(step) ==
    Sent(step) /\ step.cmd = <<COMMAND_HEADER_BYTE1, COMMAND_HEADER_BYTE2, REG_SAVE,
                               SAVE_CONFIG_VALUE % 256, (SAVE_CONFIG_VALUE \div 256) % 256>>

IsConfigWrite(step) == Sent(step) /\ step.cmd[3] \in {REG_RRATE, REG_RSW, REG_BAUD}

\* what the session has sent once `trace` follows `prior`: whether an unlock
\* went out
SessionAfter(prior, trace) ==
    [unlocked |-> prior.unlocked \/ \E i \in 1..Len(trace) : IsUnlock(trace[i])]

CfgInit ==
    /\ MainQuiet
    /\ PipeQuiet
    /\ SupQuiet
    /\ StartQuiet
    /\ ReadQuiet
    /\ MoreQuiet
    /\ cfg_op = "none"
    /\ cfg_trace = <<>>
    /\ cfg_result = "none"
    /\ cfg_arg = 0
    /\ cfg_hex_command = <<>>
    /\ cfg_prior = [unlocked |-> FALSE]

\* HWT905ConfigManager.factory_reset called on its own
FactoryReset ==
    /\ \E f \in FailureChoices :
         LET r == factory_reset(f) IN
         /\ cfg_trace' = r.trace
         /\ cfg_result' = r.ret
         /\ cfg_arg' = 0
         /\ cfg_hex_command' = <<>>
    /\ cfg_prior' = SessionAfter(cfg_prior, cfg_trace)
    /\ cfg_op' = "factory_reset"
    /\ UNCHANGED notCfg

\* ConfigCommandHandler._handle_set_rate
HandleSetRate ==
    /\ \E f \in FailureChoices : \E rate \in {10, 200, 25} :
         LET r == handle_set_rate(rate, f) IN
         /\ cfg_trace' = r.trace
         /\ cfg_result' = r.ret
         /\ cfg_arg' = rate
         /\ cfg_hex_command' = <<>>
    /\ cfg_prior' = SessionAfter(cfg_prior, cfg_trace)
    /\ cfg_op' = "set_rate"
    /\ UNCHANGED notCfg

\* ConfigCommandHandler._handle_set_output
HandleSetOutput ==
    /\ \E f \in FailureChoices : \E rsw_value \in {RSW_ACC_BIT, DEFAULT_RSW_VALUE} :
         LET r == handle_set_output(rsw_value, f) IN
         /\ cfg_trace' = r.trace
         /\ cfg_result' = r.ret
         /\ cfg_arg' = rsw_value
         /\ cfg_hex_command' = <<>>
    /\ cfg_prior' = SessionAfter(cfg_prior, cfg_trace)
    /\ cfg_op' = "set_output"
    /\ UNCHANGED notCfg

\* ConfigCommandHandler._handle_set_baudrate
HandleSetBaudrate ==
    /\ \E f \in FailureChoices : \E baudrate \in {9600, 115200, 57600} :
         LET r == handle_set_baudrate(baudrate, f) IN
         /\ cfg_trace' = r.trace
         /\ cfg_result' = r.ret
         /\ cfg_arg' = baudrate
         /\ cfg_hex_command' = <<>>
    /\ cfg_prior' = SessionAfter(cfg_prior, cfg_trace)
    /\ cfg_op' = "set_baudrate"
    /\ UNCHANGED notCfg

\* ConfigCommandHandler._handle_factory_reset
HandleFactoryReset ==
    /\ \E f0 \in Failures : \E f \in FailureChoices :
         LET r == handle_factory_reset(f0, f) IN
         /\ cfg_trace' = r.trace
         /\ cfg_result' = r.ret
         /\ cfg_arg' = 0
         /\ cfg_hex_command' = <<>>
    /\ cfg_prior' = SessionAfter(cfg_prior, cfg_trace)
    /\ cfg_op' = "handle_factory_reset"
    /\ UNCHANGED notCfg

\* ConfigCommandHandler._handle_raw_hex
HandleRawHex ==
    /\ \E failures \in Failures : \E command_bytes \in RawHexCommands :
         LET r == handle_raw_hex(command_bytes, failures) IN
         /\ cfg_trace' = r.trace
         /\ cfg_result' = r.ret
         /\ cfg_arg' = IF Len(command_bytes) >= 3 THEN command_bytes[3] ELSE 0
         /\ cfg_hex_command' = command_bytes
    /\ cfg_prior' = SessionAfter(cfg_prior, cfg_trace)
    /\ cfg_op' = "raw_hex"
    /\ UNCHANGED notCfg

\* main(): the startup configuration of a real sensor
StartupConfiguration ==
    /\ \E f \in FailureChoices : \E target_output_rate \in {200, 25} :
         LET r == startup_configuration(target_output_rate, DEFAULT_RSW_VALUE, f) IN
         /\ cfg_trace' = r.trace
         /\ cfg_result' = r.ret
         /\ cfg_arg' = target_output_rate
         /\ cfg_hex_command' = <<>>
    /\ cfg_prior' = SessionAfter(cfg_prior, cfg_trace)
    /\ cfg_op' = "startup"
    /\ UNCHANGED notCfg

CfgNext ==
    \/ FactoryReset \/ HandleFactoryReset
    \/ HandleSetRate \/ HandleSetOutput \/ HandleSetBaudrate
    \/ HandleRawHex
    \/ StartupConfiguration

SpecConfig == CfgInit /\ [][CfgNext]_vars

\* C10 (as stated): when a step of a composite configuration operation
\* fails, no later step of that operation is sent; for factory reset, the
\* remote set_* commands and the startup configuration sequence
C10_NoStepAfterFailedStep ==
    \A i \in 1..Len(cfg_trace) : \A j \in 1..Len(cfg_trace) :
        (i < j) => cfg_trace[i].ok

\* the commands of a trace in the order they were written to the port
WireCommands(trace) == [i \in 1..Len(trace) |-> trace[i].cmd]

\* C11 (as stated): a factory reset that completes puts on the wire exactly
\* unlock (FF AA 69 88 B5), FF AA 00 01 00, save (FF AA 00 00 00) and
\* restart (FF AA 00 FF 00), in this order and nothing else, whether it is
\* issued through the remote command or through the manager
C11_FactoryResetWire ==
    (cfg_op \in {"factory_reset", "handle_factory_reset"}
     /\ cfg_result \in {"True", "success"})
        => WireCommands(cfg_trace) = << <<255, 170, 105, 136, 181>>, <<255, 170, 0, 1, 0>>,
                                        <<255, 170, 0, 0, 0>>, <<255, 170, 0, 255, 0>> >>

\* the commands that reached the port completely, in order
ByteLog(trace) == WireCommands(SelectSeq(trace, Sent))

C13_WritesUnlockedAndSaved ==
    /\ \A j \in 1..Len(cfg_trace) :
         IsConfigWrite(cfg_trace[j])
            => /\ cfg_prior.unlocked \/ \E i \in 1..(j - 1) : IsUnlock(cfg_trace[i])
               /\ cfg_op # "raw_hex" => \E k \in (j + 1)..Len(cfg_trace) : IsSave(cfg_trace[k])
    /\ \A i \in 1..Len(cfg_trace) : \A j \in (i + 1)..Len(cfg_trace) :
         (cfg_trace[i].cmd[3] = REG_KEY /\ ~Sent(cfg_trace[i]))
            => cfg_trace[j].cmd[3] \notin {REG_RRATE, REG_RSW, REG_BAUD}

(***************************************************************************)
(* main(): from the loading of the configuration file to the end of the   *)
(* process, lines 159-329; the startup of a real sensor is lines 214-266.  *)
(* A register read is seen here by its outcome only; the read itself is    *)
(* modelled further below.                                                 *)
(***************************************************************************)
\* read_current_config: the read command FF AA 27 <register> 00
read_command(register_address) ==
    <<COMMAND_HEADER_BYTE1, COMMAND_HEADER_BYTE2, REG_READADDR, register_address % 256, 0>>

\* what read_current_config gives its caller
RegisterReadOutcomes == {"value", "None", "ValueError"}

\* one call of read_current_config as a step
read_step(register_address, outcome) ==
    [cmd |-> read_command(register_address), ok |-> outcome = "value"]

\* HWT905ConfigManager.connect: serial.Serial(port, baudrate=self.baudrate);
\* the open port runs at the baudrate asked for, a failed open leaves None
connect(baudrate, opens) == IF opens THEN baudrate ELSE 0

\* verify_baudrate: one read of RSW; True only when a value came back
verify_baudrate(outcome) ==
    [reads |-> <<read_step(REG_RSW, outcome)>>,
     ret |-> IF outcome = "value" THEN "True" ELSE "False"]

\* verify_factory_reset_state: reads RSW, RRATE and BAUD in turn; the first
\* read that gives None ends it with False, a ValueError passes through;
\* `defaults` says whether the three values are the factory defaults
verify_factory_reset_state(outcomes, defaults) ==
    LET r1 == read_step(REG_RSW, outcomes[1])
        r2 == read_step(REG_RRATE, outcomes[2])
        r3 == read_step(REG_BAUD, outcomes[3])
    IN IF outcomes[1] # "value"
       THEN [reads |-> <<r1>>, ret |-> IF outcomes[1] = "None" THEN "False" ELSE "ValueError"]
       ELSE IF outcomes[2] # "value"
       THEN [reads |-> <<r1, r2>>, ret |-> IF outcomes[2] = "None" THEN "False" ELSE "ValueError"]
       ELSE IF outcomes[3] # "value"
       THEN [reads |-> <<r1, r2, r3>>, ret |-> IF outcomes[3] = "None" THEN "False" ELSE "ValueError"]
       ELSE [reads |-> <<r1, r2, r3>>, ret |-> IF defaults THEN "True" ELSE "False"]

\* main changes config_manager.baudrate only after a factory reset that
\* returned True (line 230)
AfterFactoryReset == st_baudrate # sensor_baudrate

\* the steps of `trace` as issued on the port that is open now
Issued(trace) ==
    [i \in 1..Len(trace) |-> [cmd |-> trace[i].cmd, ok |-> trace[i].ok, baud |-> st_ser,
                              after_reset |-> AfterFactoryReset]]

StartInit ==
    /\ MainQuiet
    /\ PipeQuiet
    /\ SupQuiet
    /\ CfgQuiet
    /\ ReadQuiet
    /\ MoreQuiet
    /\ st_pc = "load_config"
    /\ sensor_baudrate \in {9600, 115200}
    /\ st_baudrate = sensor_baudrate
    /\ st_ser = 0
    /\ st_io = <<>>
    /\ st_exit = NoExit

\* lines 160-165 and 183: the configuration file is loaded, or the process
\* ends with exit(1); with mock_data set the sensor is not touched
Startup_LoadConfig ==
    /\ st_pc = "load_config"
    /\ \E loaded \in BOOLEAN : \E use_mock_data \in BOOLEAN :
         /\ st_pc' = IF ~loaded THEN "exit"
                     ELSE IF use_mock_data THEN "mqtt_connect" ELSE "connect"
         /\ st_exit' = IF loaded THEN st_exit ELSE Exit1("load_config")
    /\ UNCHANGED <<sensor_baudrate, st_baudrate, st_ser, st_io>>
    /\ UNCHANGED notStart

\* lines 214-221
Startup_Connect ==
    /\ st_pc = "connect"
    /\ \E opens \in BOOLEAN :
         /\ st_ser' = connect(st_baudrate, opens)
         /\ st_pc' = IF opens THEN "verify_baudrate" ELSE "exit"
         /\ st_exit' = IF opens THEN st_exit ELSE Returned("connect")
    /\ UNCHANGED <<sensor_baudrate, st_baudrate, st_io>>
    /\ UNCHANGED notStart

\* lines 225-226 and 243-244
Startup_VerifyBaudrate ==
    /\ st_pc = "verify_baudrate"
    /\ \E outcome \in RegisterReadOutcomes :
         LET r == verify_baudrate(outcome) IN
         /\ st_io' = st_io \o Issued(r.reads)
         /\ st_pc' = IF r.ret = "True" THEN "configure" ELSE "factory_reset"
    /\ UNCHANGED <<sensor_baudrate, st_baudrate, st_ser, st_exit>>
    /\ UNCHANGED notStart

\* lines 227 and 239-242
Startup_FactoryReset ==
    /\ st_pc = "factory_reset"
    /\ \E f \in FailureChoices :
         LET r == factory_reset(f) IN
         /\ st_io' = st_io \o Issued(r.trace)
         /\ st_pc' = IF r.ret = "True" THEN "reconnect" ELSE "exit"
         /\ st_exit' = IF r.ret = "True" THEN st_exit ELSE Returned("factory_reset")
    /\ UNCHANGED <<sensor_baudrate, st_baudrate, st_ser>>
    /\ UNCHANGED notStart

\* lines 228-236: close, set the manager's baudrate to the constant
\* BAUD_RATE_9600, connect again
Startup_Reconnect ==
    /\ st_pc = "reconnect"
    /\ st_baudrate' = BAUD_RATE_9600
    /\ \E opens \in BOOLEAN :
         /\ st_ser' = connect(BAUD_RATE_9600, opens)
         /\ st_pc' = IF opens THEN "verify_factory_reset_state" ELSE "exit"
         /\ st_exit' = IF opens THEN st_exit ELSE Returned("reconnect")
    /\ UNCHANGED <<sensor_baudrate, st_io>>
    /\ UNCHANGED notStart

\* lines 237-238; a ValueError of a read ends main at lines 245-249
Startup_VerifyFactoryResetState ==
    /\ st_pc = "verify_factory_reset_state"
    /\ \E outcomes \in [1..3 -> RegisterReadOutcomes] : \E defaults \in BOOLEAN :
         LET r == verify_factory_reset_state(outcomes, defaults) IN
         /\ st_io' = st_io \o Issued(r.reads)
         /\ st_pc' = IF r.ret = "ValueError" THEN "exit" ELSE "configure"
         /\ st_ser' = IF r.ret = "ValueError" THEN 0 ELSE st_ser
         /\ st_exit' = IF r.ret = "ValueError" THEN Returned("baudrate_check") ELSE st_exit
    /\ UNCHANGED <<sensor_baudrate, st_baudrate>>
    /\ UNCHANGED notStart

\* lines 252-266
Startup_Configure ==
    /\ st_pc = "configure"
    /\ \E f \in FailureChoices : \E target_output_rate \in {200, 25} :
         LET r == startup_configuration(target_output_rate, DEFAULT_RSW_VALUE, f) IN
         st_io' = st_io \o Issued(r.trace)
    /\ st_pc' = "mqtt_connect"
    /\ UNCHANGED <<sensor_baudrate, st_baudrate, st_ser, st_exit>>
    /\ UNCHANGED notStart

\* lines 292-306: the MQTT client connects, or main closes the port and
\* returns
Startup_MqttConnect ==
    /\ st_pc = "mqtt_connect"
    /\ \E connected \in BOOLEAN :
         /\ st_pc' = IF connected THEN "run" ELSE "exit"
         /\ st_ser' = IF connected THEN st_ser ELSE 0
         /\ st_exit' = IF connected THEN st_exit ELSE Returned("mqtt_connect")
    /\ UNCHANGED <<sensor_baudrate, st_baudrate, st_io>>
    /\ UNCHANGED notStart

\* lines 315-329: the run flag is cleared (Ctrl+C or the loop thread), the
\* loop thread is joined, the port and the MQTT client are closed, and main
\* reaches its end
Startup_Shutdown ==
    /\ st_pc = "run"
    /\ st_exit = NoExit
    /\ st_pc' = "exit"
    /\ st_ser' = 0
    /\ st_exit' = Returned("none")
    /\ UNCHANGED <<sensor_baudrate, st_baudrate, st_io>>
    /\ UNCHANGED notStart

StartNext ==
    \/ Startup_LoadConfig \/ Startup_MqttConnect \/ Startup_Shutdown
    \/ Startup_Connect \/ Startup_VerifyBaudrate \/ Startup_FactoryReset
    \/ Startup_Reconnect \/ Startup_VerifyFactoryResetState \/ Startup_Configure

SpecStartup == StartInit /\ [][StartNext]_vars

\* C14 (as stated): after a factory reset that succeeded during startup,
\* every further register read or write is issued on a port that was
\* reopened at 9600 baud
C14_ReopenedAt9600 ==
    \A i \in 1..Len(st_io) : st_io[i].after_reset => st_io[i].baud = 9600

(***************************************************************************)
(* read_current_config (lines 301-394) and verify_baudrate (396-429): the  *)
(* read command has been written; each step is one pass of the loop that   *)
(* waits for the response, which calls decoder.read_one_packet() once.     *)
(***************************************************************************)
\* a register-read response: type 0x5F, the requested register first
\* (0x001E), then the three that follow it
PktR == <<85, 95, 30, 0, 6, 0, 2, 0, 0, 0, 218>>

\* what one ser.read(in_waiting or 1) may return while the read waits:
\* nothing (the read timed out), the response, a data packet, a data packet
\* with the response behind it, a byte of noise, and more than fifty bytes
\* of noise in front of the response or of a data packet
ReadChunks ==
    { <<>>, PktR, PktA, PktA \o PktR, <<170>>,
      Repeat(170, GARBAGE_THRESHOLD + 1) \o PktR,
      Repeat(170, GARBAGE_THRESHOLD + 1) \o PktA }

\* lines 349-358: the value of the requested register, low byte first
register_value(raw_packet) == raw_packet[4] * 256 + raw_packet[3]

\* what the caller of the read gets for each way read_current_config ends
ReadReturns(caller, kind, value) ==
    IF caller = "verify_baudrate"
    THEN [kind |-> IF kind = "value" THEN "True" ELSE "False", value |-> 0]
    ELSE [kind |-> kind, value |-> value]

ReadInit ==
    /\ MainQuiet
    /\ PipeQuiet
    /\ SupQuiet
    /\ CfgQuiet
    /\ StartQuiet
    /\ MoreQuiet
    /\ rd_pc = "loop"
    /\ rd_caller \in {"read_current_config", "verify_baudrate"}
    /\ \E n \in 1..MaxReads : rd_chunks \in [1..n -> ReadChunks]
    /\ rd_arrived = <<>>
    /\ rd_buf = <<>>
    /\ rd_ret = [kind |-> "None", value |-> 0]

\* lines 344-374: one pass of the loop
Read_Pass ==
    /\ rd_pc = "loop" /\ rd_chunks # <<>>
    /\ LET new_bytes == Head(rd_chunks)
           r == IF new_bytes = <<>> THEN NoPacket(rd_buf)
                ELSE Frame(rd_buf \o new_bytes, Len(rd_arrived) + Len(new_bytes))
       IN /\ rd_arrived' = rd_arrived \o new_bytes
          /\ rd_buf' = r.buf
          /\ rd_chunks' = Tail(rd_chunks)
          /\ IF r.kind = "packet" /\ r.raw[2] = PACKET_TYPE_READ_REGISTER
             THEN /\ rd_ret' = ReadReturns(rd_caller, "value", register_value(r.raw))
                  /\ rd_pc' = "returned"
             ELSE IF r.kind = "possible_baudrate_mismatch"
             THEN /\ rd_ret' = ReadReturns(rd_caller, "ValueError", 0)
                  /\ rd_pc' = "returned"
             ELSE UNCHANGED <<rd_ret, rd_pc>>
    /\ UNCHANGED rd_caller
    /\ UNCHANGED notRead

\* lines 344 and 379-383: the time is up and no response was found
Read_Timeout ==
    /\ rd_pc = "loop" /\ rd_chunks = <<>>
    /\ rd_ret' = ReadReturns(rd_caller, "None", 0)
    /\ rd_pc' = "returned"
    /\ UNCHANGED <<rd_caller, rd_chunks, rd_arrived, rd_buf>>
    /\ UNCHANGED notRead

ReadNext == Read_Pass \/ Read_Timeout

SpecRead == ReadInit /\ [][ReadNext]_vars

\* a valid 0x5F packet is among the bytes that have arrived
ResponseArrived ==
    \E i \in 1..(Len(rd_arrived) - DATA_PACKET_LENGTH + 1) :
        LET p == SubSeq(rd_arrived, i, i + DATA_PACKET_LENGTH - 1) IN
        is_valid_data_packet(p) /\ p[2] = PACKET_TYPE_READ_REGISTER

\* C15 (as stated): verify_baudrate returns True if and only if a valid 0x5F
\* response arrived before the timeout of the read; it never returns False
\* when such a response did arrive in time
C15_VerifyBaudrateIffResponse ==
    (rd_caller = "verify_baudrate" /\ rd_pc = "returned")
        => (rd_ret.kind = "True" <=> ResponseArrived)

\* C16 (as stated): a register read that got no valid 0x5F response within
\* its timeout returns None and never raises, whatever arrived in the
\* meantime
C16_FailedReadReturnsNone ==
    (rd_caller = "read_current_config" /\ rd_pc = "returned" /\ ~ResponseArrived)
        => rd_ret.kind = "None"

(***************************************************************************)
(* Properties of the data path (SpecPipeline).  events.d_log, events.p_log *)
(* and events.m_log hold what the decoder, the processor and the publisher *)
(* did, each in the order the thread did it; a packet's id is its position *)
(* in the order the reader read it.                                        *)
(***************************************************************************)
\* the positions of the log whose event is one of evs
At(log, evs) == {i \in 1..Len(log) : log[i].ev \in evs}

\* C17 (as stated): for every ANGLE packet the decoder takes from Q_raw it
\* writes exactly one row to the storage sink
C17_AngleRowPerPacket ==
    \A i \in At(events.d_log, {"angle"}) :
        Cardinality({j \in At(events.d_log, {"store"}) :
                        events.d_log[j].id = events.d_log[i].id}) = 1

QueueIds(q) == LET items == SelectSeq(q, LAMBDA x : x # NoItem)
               IN [i \in 1..Len(items) |-> items[i].id]

LogIds(log, evs) == LET es == SelectSeq(log, LAMBDA e : e.ev \in evs)
                    IN [i \in 1..Len(es) |-> es[i].id]

Increasing(ids) == \A i \in 1..Len(ids) : \A j \in 1..Len(ids) : (i < j) => ids[i] < ids[j]

\* C19: order is preserved end to end: what the reader enqueued first is
\* stored and forwarded first by the decoder, processed first by the
\* processor, and the results are put on Q_mqtt and published in that order
C19_OrderPreserved ==
    /\ Increasing(QueueIds(raw_data_queue))
    /\ Increasing(LogIds(events.d_log, {"store"}))
    /\ Increasing(LogIds(events.d_log, {"put"}))
    /\ Increasing(QueueIds(decoded_data_queue))
    /\ Increasing(LogIds(events.p_log, {"process"}))
    /\ Increasing(LogIds(events.p_log, {"put"}))
    /\ Increasing(QueueIds(mqtt_queue))
    /\ Increasing(events.m_log)

C19_Witness ==
    /\ Len(events.m_log) >= 2
    /\ Len(LogIds(events.d_log, {"put"})) >= 3

\* C20 (as stated): process_new_sample returns a result only on a call on
\* which rls_sample_frame_size new samples have arrived since the previous
\* result and the RLS integrator has warmed up
C20_ResultOnlyOnWarmFrame ==
    LET log == events.p_log
        results == {i \in At(log, {"process"}) : log[i].result}
    IN \A i \in results :
         LET prev == {j \in results : j < i}
             since == {k \in At(log, {"process"}) : k <= i /\ \A j \in prev : j < k}
         IN /\ log[i].rls_warmed_up
            /\ Cardinality(since) = rls_sample_frame_size

(***************************************************************************)
(* RLSIntegrator (src/src/processing/algorithms/rls_integrator.py), one    *)
(* axis.  Samples are integers.  The floating-point results of the two     *)
(* RLS passes are not computed: a velocity or displacement array is        *)
(* recorded as forced to zero, or as computed from the calculation buffer  *)
(* and from the P and theta the passes started from; P and theta are       *)
(* recorded as the buffers the passes have consumed so far.                *)
(***************************************************************************)
calc_frame_size == rls_sample_frame_size * rls_calc_frame_multiplier

\* np.zeros(n)
np_zeros(n) == Repeat(0, n)

\* an array the warm-up branch returns: np.zeros(frame_len)
ZeroArray(frame_len) ==
    [forced_zero |-> TRUE, len |-> frame_len, acc_buffer |-> <<>>, P_theta |-> <<>>]

\* the last frame_len entries of a detrended buffer
ComputedArray(frame_len, acc_buffer, P_theta) ==
    [forced_zero |-> FALSE, len |-> frame_len, acc_buffer |-> acc_buffer, P_theta |-> P_theta]

\* __init__ (lines 35-57); warmup_frames is an attribute the caller may set
RLSIntegrator(w) ==
    [acc_buffer |-> np_zeros(calc_frame_size), frame_count |-> 0, P_theta |-> <<>>,
     warmup_frames |-> w]

\* line 159 with the comparison including the warm-up frame itself
warming_up_Inclusive(self) == self.frame_count <= self.warmup_frames

\* line 159: "if self.frame_count < self.warmup_frames"
warming_up(self) == self.frame_count < self.warmup_frames

\* process_frame (lines 129-195): the integrator after the call and what
\* the call returns
process_frame(self, acc_frame) ==
    IF Len(acc_frame) = 0
    THEN [self |-> self,
          ret |-> [disp |-> ZeroArray(0), vel |-> ZeroArray(0), acc_filtered |-> <<>>]]
    ELSE LET frame == IF Len(acc_frame) > rls_sample_frame_size
                      THEN SubSeq(acc_frame, 1, rls_sample_frame_size)
                      ELSE acc_frame
             frame_len == Len(frame)
             counted == [self EXCEPT !.frame_count = @ + 1,
                                     !.acc_buffer = SubSeq(@, frame_len + 1, Len(@)) \o frame]
         IN IF warming_up(counted)
            THEN [self |-> counted,
                  ret |-> [disp |-> ZeroArray(frame_len), vel |-> ZeroArray(frame_len),
                           acc_filtered |-> np_zeros(frame_len)]]
            ELSE [self |-> [counted EXCEPT !.P_theta = Append(@, counted.acc_buffer)],
                  ret |-> [disp |-> ComputedArray(frame_len, counted.acc_buffer, counted.P_theta),
                           vel |-> ComputedArray(frame_len, counted.acc_buffer, counted.P_theta),
                           acc_filtered |-> frame]]

\* the frames process_frame is called with: empty, shorter than a sample
\* frame, a sample frame, and one sample longer
AccFrames ==
    UNION { {Repeat(1, n), [i \in 1..n |-> i]} : n \in 0..(rls_sample_frame_size + 1) }

RlsInit ==
    /\ MainQuiet
    /\ PipeQuiet
    /\ SupQuiet
    /\ CfgQuiet
    /\ StartQuiet
    /\ ReadQuiet
    /\ SdpQuiet
    /\ StoQuiet
    /\ PortQuiet
    /\ UpQuiet
    /\ \E w \in 1..MaxWarmup : rls = RLSIntegrator(w)
    /\ rls_log = <<>>

Rls_ProcessFrame ==
    /\ Len(rls_log) < MaxFrames
    /\ \E acc_frame \in AccFrames :
         LET r == process_frame(rls, acc_frame)
         IN /\ rls' = r.self
            /\ rls_log' = Append(rls_log, [acc_frame |-> acc_frame,
                                           before |-> rls.frame_count,
                                           after |-> r.self.frame_count,
                                           ret |-> r.ret])
    /\ UNCHANGED notRls

RlsNext == Rls_ProcessFrame

SpecRls == RlsInit /\ [][RlsNext]_vars

\* every array of the return value is all zeros
AllZero(ret) ==
    /\ ret.disp.forced_zero
    /\ ret.vel.forced_zero
    /\ ret.acc_filtered = np_zeros(Len(ret.acc_filtered))

\* C21 (as stated): each of the first warmup_frames - 1 calls returns all-zero
\* arrays, every call increments frame_count by exactly one, and the call at
\* which frame_count reaches warmup_frames returns computed values
C21_WarmupPerCall ==
    \A i \in 1..Len(rls_log) :
        /\ rls_log[i].after = rls_log[i].before + 1
        /\ (i <= rls.warmup_frames - 1) => AllZero(rls_log[i].ret)
        /\ (i = rls.warmup_frames) =>
              /\ rls_log[i].after = rls.warmup_frames
              /\ ~rls_log[i].ret.disp.forced_zero
              /\ ~rls_log[i].ret.vel.forced_zero

\* C21 (amended): a call with an empty frame returns empty arrays and leaves
\* frame_count alone; every call with a non-empty frame increments
\* frame_count by exactly one, returns all-zero arrays of the frame's length
\* while frame_count stays below warmup_frames, and returns computed
\* displacement and velocity and the frame itself as filtered acceleration
\* from the call at which frame_count reaches warmup_frames
C21_WarmupPerFrame ==
    \A i \in 1..Len(rls_log) :
        LET call == rls_log[i]
            frame_len == IF Len(call.acc_frame) > rls_sample_frame_size
                         THEN rls_sample_frame_size ELSE Len(call.acc_frame)
        IN IF frame_len = 0
           THEN /\ call.after = call.before
                /\ call.ret.acc_filtered = <<>> /\ call.ret.disp.len = 0 /\ call.ret.vel.len = 0
           ELSE /\ call.after = call.before + 1
                /\ call.ret.disp.len = frame_len /\ call.ret.vel.len = frame_len
                /\ (call.after < rls.warmup_frames) => AllZero(call.ret)
                /\ (call.after >= rls.warmup_frames) =>
                      /\ ~call.ret.disp.forced_zero
                      /\ ~call.ret.vel.forced_zero
                      /\ call.ret.acc_filtered = SubSeq(call.acc_frame, 1, frame_len)

C21_Witness ==
    /\ rls.warmup_frames = 3
    /\ Len(rls_log) = 3
    /\ \A i \in 1..3 : rls_log[i].acc_frame = Repeat(1, rls_sample_frame_size)
    /\ rls.frame_count = 3
    /\ ~rls_log[3].ret.disp.forced_zero

(***************************************************************************)
(* SensorDataProcessor (src/src/processing/data_processor.py) with its     *)
(* front-end filters (data_filter.py) and its three integrators.  Values   *)
(* are integers; the divisions of the filters are integer divisions.  The  *)
(* dominant frequency the FFT finds is recorded as the segment it was      *)
(* computed from.                                                          *)
(***************************************************************************)
Axes == {"x", "y", "z"}

\* dt-independent configuration of the model's processor
gravity_g == 10
window_size == 2

max_buffer_len ==
    IF fft_n_points * 2 >= calc_frame_size THEN fft_n_points * 2 ELSE calc_frame_size

\* _create_acc_filter (lines 95-101) and the filters' __init__
create_acc_filter(filter_type) ==
    [type |-> filter_type, buffer |-> <<>>, last_filtered_value |-> 0, is_initialized |-> FALSE]

\* MovingAverageFilter.process, LowPassFilter.process with alpha = 1/2, or
\* no filter: the filter after the call and the value it returns
filter_process(self, new_sample) ==
    IF self.type = "moving_average"
    THEN LET appended == Append(self.buffer, new_sample)
             buffer == IF Len(appended) > window_size THEN Tail(appended) ELSE appended
         IN [self |-> [self EXCEPT !.buffer = buffer],
             ret |-> SumSeq(buffer) \div Len(buffer)]
    ELSE IF self.type = "low_pass"
    THEN LET value == IF ~self.is_initialized THEN new_sample
                      ELSE (new_sample + self.last_filtered_value) \div 2
         IN [self |-> [self EXCEPT !.last_filtered_value = value, !.is_initialized = TRUE],
             ret |-> value]
    ELSE [self |-> self, ret |-> new_sample]

\* MovingAverageFilter.reset, LowPassFilter.reset; no filter is left alone
filter_reset(self) ==
    [self EXCEPT !.buffer = <<>>, !.last_filtered_value = 0, !.is_initialized = FALSE]

\* a reset of the integrator that leaves frame_count as it is
RLSIntegrator_reset_KeepCount(self) ==
    [self EXCEPT !.acc_buffer = np_zeros(calc_frame_size), !.P_theta = <<>>]

\* RLSIntegrator.reset (lines 62-70)
RLSIntegrator_reset(self) ==
    [self EXCEPT !.acc_buffer = np_zeros(calc_frame_size), !.frame_count = 0, !.P_theta = <<>>]

\* SensorDataProcessor.__init__ (lines 43-91)
SensorDataProcessor(acc_filter_type) ==
    [acc_filters |-> [a \in Axes |-> create_acc_filter(acc_filter_type)],
     integrator |-> [a \in Axes |-> RLSIntegrator(warmup_frames)],
     acc_raw_buffer |-> [a \in Axes |-> <<>>]]

\* SensorDataProcessor.reset (lines 103-114)
SensorDataProcessor_reset(self) ==
    [acc_filters |-> [a \in Axes |-> filter_reset(self.acc_filters[a])],
     integrator |-> [a \in Axes |-> RLSIntegrator_reset(self.integrator[a])],
     acc_raw_buffer |-> [a \in Axes |-> <<>>]]

\* the last n entries of a sequence with at least n entries
LastN(seq, n) == SubSeq(seq, Len(seq) - n + 1, Len(seq))

\* SensorDataProcessor.process_new_sample (lines 116-230): the processor
\* after the call and what the call returns
SensorDataProcessor_process_new_sample(self, acc_g) ==
    LET raw == [a \in Axes |-> IF a = "z" THEN (acc_g[a] - 1) * gravity_g
                               ELSE acc_g[a] * gravity_g]
        pre == [a \in Axes |-> filter_process(self.acc_filters[a], raw[a])]
        buffers == [a \in Axes |->
                      LET appended == Append(self.acc_raw_buffer[a], pre[a].ret)
                      IN IF Len(appended) > max_buffer_len THEN Tail(appended) ELSE appended]
        enough == Len(buffers["x"]) >= rls_sample_frame_size
        rls_out == [a \in Axes |->
                      process_frame(self.integrator[a], LastN(buffers[a], rls_sample_frame_size))]
        after == [acc_filters |-> [a \in Axes |-> pre[a].self],
                  integrator |-> IF enough THEN [a \in Axes |-> rls_out[a].self]
                                 ELSE self.integrator,
                  acc_raw_buffer |-> buffers]
    IN IF enough
       THEN [self |-> after,
             ret |-> [kind |-> "result",
                      axis |-> [a \in Axes |->
                                  [acc_filtered |-> rls_out[a].ret.acc_filtered[rls_sample_frame_size],
                                   vel |-> rls_out[a].ret.vel,
                                   disp |-> rls_out[a].ret.disp,
                                   fft_segment |-> IF Len(buffers["x"]) >= fft_n_points
                                                   THEN buffers[a] ELSE <<>>]],
                      rls_warmed_up |-> rls_out["x"].self.frame_count >= warmup_frames,
                      acc |-> acc_g]]
       ELSE [self |-> after,
             ret |-> [kind |-> "None", axis |-> <<>>, rls_warmed_up |-> FALSE, acc |-> acc_g]]

\* acceleration samples in g given to the processor
AccSamples ==
    { [a \in Axes |-> IF a = "z" THEN 1 ELSE 0],
      [a \in Axes |-> IF a = "x" THEN 2 ELSE IF a = "y" THEN 5 ELSE 3] }

AccFilterTypes == {"None", "moving_average", "low_pass"}

SdpInit ==
    /\ MainQuiet
    /\ PipeQuiet
    /\ SupQuiet
    /\ CfgQuiet
    /\ StartQuiet
    /\ ReadQuiet
    /\ RlsQuiet
    /\ StoQuiet
    /\ PortQuiet
    /\ UpQuiet
    /\ \E t \in AccFilterTypes : sdp = SensorDataProcessor(t)
    /\ sdp_new = <<>>
    /\ sdp_pc = "used"
    /\ sdp_calls = [before |-> 0, after |-> 0]
    /\ sdp_ret = <<>>

\* a sample is processed before the reset
Sdp_ProcessNewSample ==
    /\ sdp_pc = "used" /\ sdp_calls.before < MaxSamples
    /\ \E acc_g \in AccSamples :
         LET r == SensorDataProcessor_process_new_sample(sdp, acc_g)
         IN /\ sdp' = r.self
            /\ sdp_ret' = <<r.ret>>
    /\ sdp_calls' = [sdp_calls EXCEPT !.before = @ + 1]
    /\ UNCHANGED <<sdp_new, sdp_pc>>
    /\ UNCHANGED notSdp

\* reset() is called; a second processor is constructed with the same
\* arguments
Sdp_Reset ==
    /\ sdp_pc = "used"
    /\ sdp' = SensorDataProcessor_reset(sdp)
    /\ sdp_new' = SensorDataProcessor(sdp.acc_filters["x"].type)
    /\ sdp_pc' = "reset"
    /\ UNCHANGED sdp_calls
    /\ sdp_ret' = <<>>
    /\ UNCHANGED notSdp

\* the same sample is given to the reset processor and to the new one
Sdp_ProcessBoth ==
    /\ sdp_pc = "reset" /\ sdp_calls.after < MaxSamples
    /\ \E acc_g \in AccSamples :
         LET r == SensorDataProcessor_process_new_sample(sdp, acc_g)
             n == SensorDataProcessor_process_new_sample(sdp_new, acc_g)
         IN /\ sdp' = r.self
            /\ sdp_new' = n.self
            /\ sdp_ret' = <<r.ret, n.ret>>
    /\ sdp_calls' = [sdp_calls EXCEPT !.after = @ + 1]
    /\ UNCHANGED sdp_pc
    /\ UNCHANGED notSdp

SdpNext == Sdp_ProcessNewSample \/ Sdp_Reset \/ Sdp_ProcessBoth

SpecSdp == SdpInit /\ [][SdpNext]_vars

\* C22: after reset() the processor is in the state of a newly constructed
\* one (filters, sample buffers, integrator buffers, frame_count, P and
\* theta on all three axes), and for every input sequence given to both,
\* each call returns the same from both
C22_ResetEqualsNew ==
    sdp_pc = "reset" =>
        /\ sdp = sdp_new
        /\ sdp_ret # <<>> => sdp_ret[1] = sdp_ret[2]

\* a processor that had produced results is reset and then, fed with the
\* new one, has warmed up again
C22_Witness ==
    /\ sdp_pc = "reset"
    /\ sdp_calls.before >= rls_sample_frame_size + warmup_frames - 1
    /\ sdp_ret # <<>>
    /\ sdp_ret[1].kind = "result" /\ sdp_ret[1].rls_warmed_up
    /\ sdp.acc_filters["x"].type = "low_pass"

(***************************************************************************)
(* StorageManager (src/src/storage/storage_manager.py).  Time is counted   *)
(* in ticks; a file name carries the second its path was made in, so the   *)
(* name of a file is that second and strptime gives back the first tick of *)
(* it.  A file is its rows in order, 0 being a header row and k > 0 the    *)
(* k-th row given to write_data, and its modification time.  Each call of  *)
(* write_data gets at most one failing file operation: io says which.      *)
(***************************************************************************)
NoPath == -1
NoTime == -1
HeaderRow == 0

IoOutcomes == {"ok", "open_IOError", "writeheader_IOError", "append_error", "writerow_IOError"}

\* __init__ (lines 31-39)
StorageManager(reconnection_strategy) ==
    [reconnection_strategy |-> reconnection_strategy,
     current_file_path |-> NoPath,
     current_file_writer |-> FALSE,
     current_file_start_time |-> NoTime]

\* base_dir after the file at path is created, truncated or appended to
PutFile(dir, path, file) ==
    [n \in (DOMAIN dir) \cup {path} |-> IF n = path THEN file ELSE dir[n]]

\* a file name that carries the time to the minute only
get_new_filepath_ToTheMinute(now) == now \div (TicksPerSecond * 60)

\* _get_new_filepath (lines 44-48): now.strftime('%Y%m%d-%H%M%S')
get_new_filepath(now) == now \div TicksPerSecond

\* datetime.strptime(timestamp_str, '%Y%m%d-%H%M%S') (line 98)
strptime(timestamp) == timestamp * TicksPerSecond

\* a close that closes the handle and keeps the manager's fields
close_current_file_KeepFields(self) == self

\* close_current_file (lines 152-164); an IOError of handle.close() is
\* caught and logged
close_current_file(self) ==
    [self EXCEPT !.current_file_path = NoPath,
                 !.current_file_writer = FALSE,
                 !.current_file_start_time = NoTime]

\* _open_new_file (lines 50-66)
open_new_file(self, dir, now, io) ==
    LET closed == close_current_file(self)
        path == get_new_filepath(now)
    IN IF io = "open_IOError"
       THEN [self |-> closed, dir |-> dir]
       ELSE IF io = "writeheader_IOError"
       THEN [self |-> closed, dir |-> PutFile(dir, path, [rows |-> <<>>, mtime |-> now])]
       ELSE [self |-> [closed EXCEPT !.current_file_path = path,
                                     !.current_file_writer = TRUE,
                                     !.current_file_start_time = now],
             dir |-> PutFile(dir, path, [rows |-> <<HeaderRow>>, mtime |-> now])]

\* a search that returns the file modified longest ago
find_latest_file_Oldest(dir) ==
    IF DOMAIN dir = {} THEN NoPath
    ELSE CHOOSE p \in DOMAIN dir :
           \A q \in DOMAIN dir :
              \/ dir[q].mtime > dir[p].mtime
              \/ dir[q].mtime = dir[p].mtime /\ q >= p

\* _find_latest_file (lines 68-86): the greatest (mtime, path)
find_latest_file(dir) ==
    IF DOMAIN dir = {} THEN NoPath
    ELSE CHOOSE p \in DOMAIN dir :
           \A q \in DOMAIN dir :
              \/ dir[q].mtime < dir[p].mtime
              \/ dir[q].mtime = dir[p].mtime /\ q <= p

\* _continue_existing_file (lines 88-113)
continue_existing_file(self, file_path, io) ==
    LET named == [self EXCEPT !.current_file_path = file_path,
                              !.current_file_start_time = strptime(file_path)]
    IN IF io = "append_error"
       THEN [self |-> named, ret |-> FALSE]
       ELSE [self |-> [named EXCEPT !.current_file_writer = TRUE], ret |-> TRUE]

\* a rotation test that lets the first instant after the window through
rotation_due_Late(self, now) ==
    /\ self.current_file_start_time # NoTime
    /\ now > self.current_file_start_time + RotationTicks

\* lines 127-128 and 139-140
rotation_due(self, now) ==
    /\ self.current_file_start_time # NoTime
    /\ now >= self.current_file_start_time + RotationTicks

\* write_data (lines 115-150): the manager and base_dir after the call, and
\* the file the row went to
write_data(self, dir, now, data, io) ==
    LET opened ==
          IF ~self.current_file_writer
          THEN IF self.reconnection_strategy = "continue_file"
               THEN LET latest_file == find_latest_file(dir)
                        cont == continue_existing_file(self, latest_file, io)
                    IN IF latest_file # NoPath /\ cont.ret
                       THEN IF rotation_due(cont.self, now)
                            THEN open_new_file(cont.self, dir, now, io)
                            ELSE [self |-> cont.self, dir |-> dir]
                       ELSE open_new_file(IF latest_file # NoPath THEN cont.self ELSE self,
                                          dir, now, io)
               ELSE open_new_file(self, dir, now, io)
          ELSE IF rotation_due(self, now)
          THEN open_new_file(self, dir, now, io)
          ELSE [self |-> self, dir |-> dir]
        path == opened.self.current_file_path
    IN IF opened.self.current_file_writer
       THEN IF io = "writerow_IOError"
            THEN [self |-> close_current_file(opened.self), dir |-> opened.dir,
                  path |-> NoPath, start |-> NoTime]
            ELSE [self |-> opened.self,
                  dir |-> PutFile(opened.dir, path,
                                  [rows |-> Append(opened.dir[path].rows, data), mtime |-> now]),
                  path |-> path, start |-> opened.self.current_file_start_time]
       ELSE [self |-> opened.self, dir |-> opened.dir, path |-> NoPath, start |-> NoTime]

\* a close that calls self.ser.close() without testing self.ser
close_connection_Unguarded(conn) ==
    [ser |-> "None", current_port |-> "None", raised |-> conn.ser = "None"]

\* SensorConnectionManager.close_connection (connection_manager.py lines
\* 271-280); an exception of ser.close() is caught and logged
close_connection(conn) == [ser |-> "None", current_port |-> "None", raised |-> FALSE]

NoClose == [n |-> 0, same |-> TRUE, raised |-> FALSE]

StoInit ==
    /\ MainQuiet
    /\ PipeQuiet
    /\ SupQuiet
    /\ CfgQuiet
    /\ StartQuiet
    /\ ReadQuiet
    /\ RlsQuiet
    /\ SdpQuiet
    /\ PortQuiet
    /\ UpQuiet
    /\ \E strategy \in {"new_file", "continue_file"} : sto = StorageManager(strategy)
    /\ sto_now = 0
    /\ sto_dir = <<>>
    /\ sto_log = <<>>
    /\ sto_hist = [rows |-> 0, io_errors |-> 0, restarts |-> 0, startup |-> TRUE,
                   close_file |-> NoClose, close_conn |-> NoClose]

\* the clock advances
Sto_Tick ==
    /\ sto_now < MaxTime
    /\ sto_now' = sto_now + 1
    /\ UNCHANGED <<sto, sto_dir, sto_log, sto_hist>>
    /\ UNCHANGED <<notSto, varsUp>>

\* the file the open handle of the manager writes to has been renamed
HandleRenamed ==
    /\ sto.current_file_writer
    /\ sto.current_file_path \notin DOMAIN sto_dir
    /\ sto.current_file_path \in DOMAIN up_renamed

\* base_dir as the manager's calls see it: the listing of the data_*.csv
\* names, and under the path of the open handle the file it was opened on
HandleView ==
    IF HandleRenamed
    THEN PutFile(sto_dir, sto.current_file_path, up_renamed[sto.current_file_path].file)
    ELSE sto_dir

\* one row is given to write_data; a handle opened on a file that was
\* renamed since writes to the renamed file
Sto_WriteData ==
    /\ sto_hist.rows < MaxRows
    /\ \E io \in IoOutcomes :
         /\ LET data == sto_hist.rows + 1
                r == write_data(sto, HandleView, sto_now, data, io)
                held == sto.current_file_path
            IN /\ io # "ok" => /\ sto_hist.io_errors < MaxIoErrors
                               /\ r # write_data(sto, HandleView, sto_now, data, "ok")
               /\ sto' = r.self
               /\ sto_dir' = IF HandleRenamed
                             THEN [n \in (DOMAIN r.dir) \ {held} |-> r.dir[n]]
                             ELSE r.dir
               /\ up_renamed' = IF HandleRenamed
                                THEN [up_renamed EXCEPT ![held].file = r.dir[held]]
                                ELSE up_renamed
               /\ sto_log' = Append(sto_log,
                     [data |-> data, t |-> sto_now, path |-> r.path, start |-> r.start,
                      io |-> io, startup |-> sto_hist.startup,
                      no_writer |-> ~sto.current_file_writer,
                      dir_before |-> HandleView, dir_after |-> r.dir, self_after |-> r.self])
               /\ sto_hist' = [sto_hist EXCEPT !.rows = data,
                                               !.io_errors = IF io = "ok" THEN @ ELSE @ + 1,
                                               !.startup = FALSE,
                                               !.close_file = NoClose]
    /\ UNCHANGED sto_now
    /\ UNCHANGED <<up_pc, up_files, up_data_points, up_published, up_runs>>
    /\ UNCHANGED notSto

\* the application stops and starts again over the same directory: the file
\* is closed and a new StorageManager is constructed
Sto_Restart ==
    /\ sto_hist.restarts < MaxRestarts
    /\ ~sto_hist.startup
    /\ sto' = StorageManager(sto.reconnection_strategy)
    /\ sto_hist' = [sto_hist EXCEPT !.restarts = @ + 1, !.startup = TRUE, !.close_file = NoClose]
    /\ UNCHANGED <<sto_now, sto_dir, sto_log>>
    /\ UNCHANGED <<notSto, varsUp>>

\* close_current_file is called, at most twice in a row
Sto_CloseCurrentFile ==
    /\ sto_hist.close_file.n < 2
    /\ sto' = close_current_file(sto)
    /\ sto_hist' = [sto_hist EXCEPT !.close_file =
                       [n |-> @.n + 1, same |-> sto' = sto, raised |-> FALSE]]
    /\ UNCHANGED <<sto_now, sto_dir, sto_log>>
    /\ UNCHANGED <<notSto, varsUp>>

\* close_connection is called, at most twice in a row
Sto_CloseConnection ==
    /\ sto_hist.close_conn.n < 2
    /\ LET closed == close_connection([ser |-> ser, current_port |-> current_port])
       IN /\ ser' = closed.ser
          /\ current_port' = closed.current_port
          /\ sto_hist' = [sto_hist EXCEPT !.close_conn =
                             [n |-> @.n + 1,
                              same |-> closed.ser = ser /\ closed.current_port = current_port,
                              raised |-> closed.raised]]
    /\ UNCHANGED <<sto, sto_now, sto_dir, sto_log>>
    /\ UNCHANGED <<pcS, preferred_port, consecutive_failures, attempt_count, reconnect_delay,
                   reconnection_attempts, sup_hist>>
    /\ UNCHANGED <<varsMain, varsPipe, varsCfg, varsStart, varsRead, varsRls, varsSdp, varsPort,
                   varsUp>>

\* the serial connection is established again
Sto_EstablishConnection ==
    /\ ser = "None"
    /\ \E present \in SUBSET Range(UsbPorts) :
         LET c == establish_connection(present, preferred_port, present, present)
         IN /\ ser' = c.ser
            /\ current_port' = c.current_port
    /\ sto_hist' = [sto_hist EXCEPT !.close_conn = NoClose]
    /\ UNCHANGED <<sto, sto_now, sto_dir, sto_log>>
    /\ UNCHANGED <<pcS, preferred_port, consecutive_failures, attempt_count, reconnect_delay,
                   reconnection_attempts, sup_hist>>
    /\ UNCHANGED <<varsMain, varsPipe, varsCfg, varsStart, varsRead, varsRls, varsSdp, varsPort,
                   varsUp>>

StoNext ==
    \/ Sto_Tick
    \/ Sto_WriteData
    \/ Sto_Restart

SpecStorage == StoInit /\ [][StoNext]_vars

\* closing and reopening the storage file and the serial connection, with
\* the clock standing still
CloseNext ==
    \/ Sto_WriteData
    \/ Sto_CloseCurrentFile
    \/ Sto_CloseConnection
    \/ Sto_EstablishConnection

SpecClose == StoInit /\ [][CloseNext]_vars

\* the write_data calls that put their row in a file
Written == {i \in 1..Len(sto_log) : sto_log[i].path # NoPath}

\* C23: every row is written to a file whose recorded start time s
\* satisfies s <= t < s + rotation_interval, t being the time of the write
C23_RowInsideWindow ==
    \A i \in Written :
        /\ sto_log[i].start <= sto_log[i].t
        /\ sto_log[i].t < sto_log[i].start + RotationTicks

\* a row was written after a rotation inside one run
C23_Witness ==
    \E i \in Written : \E j \in Written :
        /\ j = i + 1
        /\ ~sto_log[j].no_writer
        /\ sto_log[j].path # sto_log[i].path
        /\ sto_log[j].t = sto_log[i].start + RotationTicks

\* the data files
Files(dir) == {dir[n] : n \in DOMAIN dir}

\* the number of header rows of a file
Headers(file) == Cardinality({k \in 1..Len(file.rows) : file.rows[k] = HeaderRow})

\* C24 (as stated): after any sequence of writes, rotations, I/O-error
\* recoveries and restarts, in either startup mode, every data file holds
\* exactly one header row and it is the first row
C24_OneHeaderFirst ==
    \A file \in Files(sto_dir) :
        /\ Headers(file) = 1
        /\ file.rows[1] = HeaderRow

\* the file whose name carries the latest timestamp
MostRecent(dir) == CHOOSE p \in DOMAIN dir : \A q \in DOMAIN dir : q <= p

\* C25: in continue_file mode the first write after startup takes the most
\* recent file, with the start time its name gives, and appends to it if and
\* only if the current time is inside that file's rotation window; otherwise
\* it writes to a file it has just created
C25_ContinueIffInsideWindow ==
    \A i \in 1..Len(sto_log) :
        LET call == sto_log[i]
            fresh == /\ call.path \notin DOMAIN call.dir_before
                     /\ call.dir_after[call.path].rows = <<HeaderRow, call.data>>
        IN (call.startup /\ sto.reconnection_strategy = "continue_file" /\ call.io = "ok") =>
              IF DOMAIN call.dir_before = {} THEN fresh
              ELSE LET latest == MostRecent(call.dir_before)
                       inside == call.t < latest * TicksPerSecond + RotationTicks
                   IN IF inside
                      THEN /\ call.path = latest
                           /\ call.start = latest * TicksPerSecond
                           /\ call.dir_after[latest].rows =
                                 Append(call.dir_before[latest].rows, call.data)
                      ELSE fresh

\* after a restart with two files in the directory the first write went on
\* in the most recent one
C25_Witness ==
    \E i \in 1..Len(sto_log) :
        /\ sto_log[i].startup /\ sto.reconnection_strategy = "continue_file"
        /\ sto_log[i].io = "ok"
        /\ Cardinality(DOMAIN sto_log[i].dir_before) = 2
        /\ sto_log[i].path = MostRecent(sto_log[i].dir_before)

\* C26 (as stated): in new_file mode the first write after startup goes to a
\* file it has just created, and no file that was in the directory is
\* reused, appended to or modified
C26_NewFileTouchesNothing ==
    \A i \in 1..Len(sto_log) :
        LET call == sto_log[i] IN
        (call.startup /\ sto.reconnection_strategy = "new_file") =>
            /\ call.path # NoPath => call.path \notin DOMAIN call.dir_before
            /\ \A n \in DOMAIN call.dir_before : call.dir_after[n] = call.dir_before[n]

\* the places (file, position) where the k-th row given to the sink stands
Places(dir, k) ==
    {<<n, j>> \in (DOMAIN dir) \X (1..(MaxRows + 2)) : j <= Len(dir[n].rows) /\ dir[n].rows[j] = k}

\* C27: when no file operation failed and the application was not
\* restarted, every row given to the sink stands in exactly one place of
\* the data files, and the files hold no other data row
C27_RotationKeepsRows ==
    (sto_hist.io_errors = 0 /\ sto_hist.restarts = 0) =>
        /\ \A k \in 1..sto_hist.rows : Cardinality(Places(sto_dir, k)) = 1
        /\ \A file \in Files(sto_dir) : \A j \in 1..Len(file.rows) :
               file.rows[j] \in 0..sto_hist.rows

C27_Witness ==
    /\ sto_hist.io_errors = 0 /\ sto_hist.restarts = 0
    /\ sto_hist.rows >= 3
    /\ Cardinality(DOMAIN sto_dir) >= 2

\* the calls in which opening the new file, writing its header or writing
\* the row failed
Failed == {i \in 1..Len(sto_log) :
             sto_log[i].io \in {"open_IOError", "writeheader_IOError", "writerow_IOError"}}

\* C28: when writing a row or opening the next file fails, write_data
\* returns with the file closed and its fields cleared, and the next row
\* given to it goes through the opening of a file again
C28_FailureClosesAndRetries ==
    \A i \in Failed :
        /\ sto_log[i].self_after = StorageManager(sto.reconnection_strategy)
        /\ sto_log[i].path = NoPath
        /\ (i < Len(sto_log)) => sto_log[i + 1].no_writer

\* a row write failed in an open file and the next row was written
C28_Witness ==
    \E i \in Failed :
        /\ sto_log[i].io = "writerow_IOError"
        /\ ~sto_log[i].no_writer
        /\ i < Len(sto_log)
        /\ sto_log[i + 1].path # NoPath

\* C29: a second close of the storage file, or of the serial connection,
\* with nothing opened in between leaves the state as the first close left
\* it and raises nothing
C29_CloseIdempotent ==
    /\ sto_hist.close_file.n = 2 => sto_hist.close_file.same /\ ~sto_hist.close_file.raised
    /\ sto_hist.close_conn.n = 2 => sto_hist.close_conn.same /\ ~sto_hist.close_conn.raised

\* a file that had been written to and the open connection were each closed
\* twice
C29_Witness ==
    /\ sto_hist.close_file.n = 2
    /\ sto_hist.close_conn.n = 2
    /\ sto_hist.rows >= 1
    /\ sto_log[Len(sto_log)].path # NoPath

\* C30 (as stated): a raw_hex command of exactly five bytes that is reported
\* sent has caused exactly those five bytes, in that order, to be written
C30_RawHexPassedThrough ==
    (cfg_op = "raw_hex" /\ Len(cfg_hex_command) = 5 /\ cfg_result = "success") =>
        ByteLog(cfg_trace) = <<cfg_hex_command>>

\* C34 (as stated): the integrator tests frame_count < warmup_frames before
\* it counts the frame, so each of the first warmup_frames frames processed
\* after construction returns zero displacement and velocity, and computed
\* values are returned from the frame after those
C34_ZeroForWarmupFrames ==
    \A i \in 1..Len(rls_log) :
        rls_log[i].acc_frame # <<>> =>
            /\ rls_log[i].after = rls_log[i].before + 1
            /\ (rls_log[i].before < rls.warmup_frames) <=>
                   (rls_log[i].ret.disp.forced_zero /\ rls_log[i].ret.vel.forced_zero)

\* the retries a step was sent with: 5 for the factory-reset and the restart
\* write, the default of 3 for every other
RetriesOf(step) ==
    IF step.cmd[3] = REG_SAVE /\ step.cmd[4] \in {FACTORY_RESET_VALUE % 256,
                                                  RESTART_SENSOR_VALUE % 256}
    THEN CRITICAL_RETRIES ELSE DEFAULT_RETRIES

C39_SuccessMeansAllThreeSent ==
    (cfg_op \in {"set_rate", "set_output", "set_baudrate"} /\ cfg_result = "success")
        => /\ Len(cfg_trace) = 3
           /\ \A i \in 1..3 : Sent(cfg_trace[i])

(***************************************************************************)
(* The serial port between the application (main.py) and the standalone   *)
(* config service (scripts/mqtt_config_service.py), which is started next  *)
(* to it.  An operation on the port is in progress from its Begin step to  *)
(* its End step.  The service is written against a SensorConnectionManager *)
(* that is constructed from sensor_config and has get_config_manager();    *)
(* the class in core/connection_manager.py has neither, so these two       *)
(* follow the specification; establish_connection is the one of the code.  *)
(***************************************************************************)
\* connection_manager.get_config_manager(): a config manager that issues its
\* commands on the connection the manager holds
get_config_manager(ser_instance) == [ser |-> ser_instance]

\* MQTTConfigService._init_sensor_connection: up to three attempts of
\* establish_connection; with a connection the config manager is fetched
\* and the method returns True, with none it returns False
init_sensor_connection(opens) ==
    IF opens
    THEN [ret |-> TRUE, holds |-> TRUE, config_manager |-> get_config_manager("open")]
    ELSE [ret |-> FALSE, holds |-> FALSE, config_manager |-> get_config_manager("None")]

PortInit ==
    /\ MainQuiet
    /\ PipeQuiet
    /\ SupQuiet
    /\ CfgQuiet
    /\ StartQuiet
    /\ ReadQuiet
    /\ RlsQuiet
    /\ SdpQuiet
    /\ StoQuiet
    /\ UpQuiet
    /\ pt_pc = "connect"
    /\ pt_holders = {}
    /\ pt_busy = {}
    /\ pt_count = [config |-> 0, reads |-> 0, service_runs |-> 0, commands |-> 0]
    /\ svc_pc = "idle"

\* main.py 214-221: config_manager.connect() opens the port, and the decoder
\* is given the same serial instance
Port_MainConnect ==
    /\ pt_pc = "connect"
    /\ \E opens \in BOOLEAN :
         /\ pt_pc' = IF opens THEN "configure" ELSE "closed"
         /\ pt_holders' = IF opens THEN pt_holders \cup {"main"} ELSE pt_holders
    /\ UNCHANGED <<pt_busy, pt_count, svc_pc>>
    /\ UNCHANGED notPort

\* main.py 225-266: main's thread calls a register read or write of the
\* startup configuration
Port_ConfigBegin ==
    /\ pt_pc = "configure"
    /\ [by |-> "main", kind |-> "config"] \notin pt_busy
    /\ pt_count.config < MaxConfigOps
    /\ pt_busy' = pt_busy \cup {[by |-> "main", kind |-> "config"]}
    /\ UNCHANGED <<pt_pc, pt_holders, pt_count, svc_pc>>
    /\ UNCHANGED notPort

\* the call returns
Port_ConfigEnd ==
    /\ [by |-> "main", kind |-> "config"] \in pt_busy
    /\ pt_busy' = pt_busy \ {[by |-> "main", kind |-> "config"]}
    /\ pt_count' = [pt_count EXCEPT !.config = @ + 1]
    /\ UNCHANGED <<pt_pc, pt_holders, svc_pc>>
    /\ UNCHANGED notPort

\* main.py 309-314: after the last configuration call has returned, main
\* starts the thread that reads the data stream
Port_StartLoop ==
    /\ pt_pc = "configure"
    /\ [by |-> "main", kind |-> "config"] \notin pt_busy
    /\ pt_pc' = "reading"
    /\ UNCHANGED <<pt_holders, pt_busy, pt_count, svc_pc>>
    /\ UNCHANGED notPort

\* main.py 72-86: the loop thread calls data_decoder.read_one_packet()
Port_ReadBegin ==
    /\ pt_pc = "reading"
    /\ [by |-> "main", kind |-> "read"] \notin pt_busy
    /\ pt_count.reads < MaxPortReads
    /\ pt_busy' = pt_busy \cup {[by |-> "main", kind |-> "read"]}
    /\ UNCHANGED <<pt_pc, pt_holders, pt_count, svc_pc>>
    /\ UNCHANGED notPort

\* the call returns
Port_ReadEnd ==
    /\ [by |-> "main", kind |-> "read"] \in pt_busy
    /\ pt_busy' = pt_busy \ {[by |-> "main", kind |-> "read"]}
    /\ pt_count' = [pt_count EXCEPT !.reads = @ + 1]
    /\ UNCHANGED <<pt_pc, pt_holders, svc_pc>>
    /\ UNCHANGED notPort

\* main.py 323-330: the loop thread has been joined, the port is closed
Port_MainClose ==
    /\ pt_pc = "reading"
    /\ [by |-> "main", kind |-> "read"] \notin pt_busy
    /\ pt_pc' = "closed"
    /\ pt_holders' = pt_holders \ {"main"}
    /\ UNCHANGED <<pt_busy, pt_count, svc_pc>>
    /\ UNCHANGED notPort

\* the config service is started: start() calls _init_sensor_connection
\* (lines 59-61), which opens the port with establish_connection whoever
\* else has it open; start() returns False when it returns False
Svc_InitSensorConnection ==
    /\ svc_pc = "idle"
    /\ pt_count.service_runs < MaxServiceRuns
    /\ \E opens \in BOOLEAN :
         LET r == init_sensor_connection(opens) IN
         /\ svc_pc' = IF r.ret THEN "listening" ELSE "idle"
         /\ pt_holders' = IF r.holds THEN pt_holders \cup {"service"} ELSE pt_holders
    /\ pt_count' = [pt_count EXCEPT !.service_runs = @ + 1]
    /\ UNCHANGED <<pt_pc, pt_busy>>
    /\ UNCHANGED notPort

\* a command arrives over MQTT: the handler calls the config manager, which
\* writes the command to the service's connection
Svc_CommandBegin ==
    /\ svc_pc = "listening"
    /\ [by |-> "service", kind |-> "config"] \notin pt_busy
    /\ pt_count.commands < MaxConfigOps
    /\ pt_busy' = pt_busy \cup {[by |-> "service", kind |-> "config"]}
    /\ UNCHANGED <<pt_pc, pt_holders, pt_count, svc_pc>>
    /\ UNCHANGED notPort

\* the handler returns its response
Svc_CommandEnd ==
    /\ [by |-> "service", kind |-> "config"] \in pt_busy
    /\ pt_busy' = pt_busy \ {[by |-> "service", kind |-> "config"]}
    /\ pt_count' = [pt_count EXCEPT !.commands = @ + 1]
    /\ UNCHANGED <<pt_pc, pt_holders, svc_pc>>
    /\ UNCHANGED notPort

\* stop() (lines 80-90): the subscriber is disconnected and the connection
\* closed
Svc_Stop ==
    /\ svc_pc = "listening"
    /\ [by |-> "service", kind |-> "config"] \notin pt_busy
    /\ svc_pc' = "idle"
    /\ pt_holders' = pt_holders \ {"service"}
    /\ UNCHANGED <<pt_pc, pt_busy, pt_count>>
    /\ UNCHANGED notPort

PortNext ==
    \/ Port_MainConnect \/ Port_ConfigBegin \/ Port_ConfigEnd \/ Port_StartLoop
    \/ Port_ReadBegin \/ Port_ReadEnd \/ Port_MainClose
    \/ Svc_InitSensorConnection \/ Svc_CommandBegin \/ Svc_CommandEnd \/ Svc_Stop

SpecPort == PortInit /\ [][PortNext]_vars

NextPacketSeg(i) ==
    LET later == {j \in (i + 1)..Len(segs) : segs[j] \in PacketSegs}
    IN IF later = {} THEN 0 ELSE CHOOSE j \in later : \A k \in later : j <= k

\* C33 (as stated): a candidate that fails validation costs one byte and the
\* scan goes on, so the rejected candidate is never returned and the scan
\* does not get past the valid packet that begins after it without
\* returning that packet
C33_ResyncAfterRejectedCandidate ==
    serial_errors = 0 =>
        \A i \in 1..Len(segs) :
            segs[i] = "Bad" =>
                /\ \A k \in 1..Len(returned) : returned[k].off # SegOffset(i)
                /\ (NextPacketSeg(i) # 0
                    /\ arrived - Len(packet_buffer) > SegOffset(NextPacketSeg(i)))
                      => \E k \in 1..Len(returned) :
                             returned[k].off = SegOffset(NextPacketSeg(i))

\* the wait the specification gives for the k-th failed attempt in a row
BackoffAfter(k) ==
    IF INITIAL_RECONNECT_DELAY + (k - 1) < MAX_RECONNECT_DELAY
    THEN INITIAL_RECONNECT_DELAY + (k - 1) ELSE MAX_RECONNECT_DELAY

\* C35: within one call of auto_reconnect the sleep after the k-th failed
\* attempt in a row is min(3 + (k - 1), 10) seconds, and every call, also one
\* that follows a successful reconnection, starts again at 3 seconds
C35_AdditiveBackoff ==
    /\ \A k \in 1..Len(sup_hist.slept) : sup_hist.slept[k] = BackoffAfter(k)
    /\ pcS = "auto_reconnect" =>
          /\ Len(sup_hist.slept) = attempt_count
          /\ reconnect_delay = BackoffAfter(attempt_count + 1)

\* a second call of auto_reconnect, made after the first one reconnected,
\* has slept 3 seconds first and has reached the cap of 10 seconds
C35_Witness ==
    /\ sup_hist.episodes = 2
    /\ Len(sup_hist.slept) >= 9
    /\ sup_hist.slept[1] = INITIAL_RECONNECT_DELAY
    /\ sup_hist.slept[8] = MAX_RECONNECT_DELAY
    /\ sup_hist.slept[9] = MAX_RECONNECT_DELAY

\* C36 (as stated): a read failure that is not the third in a row is a plain
\* retry: the reader goes on reading, and nothing is shut down or reconnected
C36_FewerThanThreeIsRetry ==
    (events.transport_fault /\ ~events.operator_shutdown
     /\ ~handle_serial_error(consecutive_failures + 1, MAX_FAILURES))
        => (pcR = "loop" /\ running_flag)

\* the candidates of the last establish_connection that deliver data and can
\* be opened
Passing == sup_hist.present \cap sup_hist.with_data \cap sup_hist.openable

\* C37 (as stated): establish_connection goes through the candidates in
\* discovery order, leaves one that cannot be opened or fails verification
\* and tries the next; the connection it hands over is on the first candidate
\* that passed, and on no other
C37_FirstPassingCandidate ==
    sup_hist.established =>
        LET candidates == find_available_ports(sup_hist.present, preferred_port)
            passed == SelectSeq(candidates, LAMBDA p : p \in Passing)
        IN /\ ser = "open" => current_port \in Passing
           /\ passed # <<>> => (ser = "open" /\ current_port = Head(passed))

\* C31 (as stated): the process ends with status 0 only after a clean
\* shutdown; when an initialization step failed (the configuration file, the
\* port, the baudrate check, the factory reset, the broker) it ends with a
\* status other than 0
C31_ZeroOnlyAfterCleanShutdown ==
    st_pc = "exit" => (st_exit.code = 0 <=> st_exit.failure = "none")

(***************************************************************************)
(* The uploader (src/scripts/sender.py) run over the directory the         *)
(* StorageManager of the running application writes to.  A renamed file    *)
(* leaves the listing of the data_*.csv names and keeps its rows; a handle *)
(* that was open on it goes on writing to it.                              *)
(***************************************************************************)
MQTT_ERR_SUCCESS == "MQTT_ERR_SUCCESS"
MQTT_ERR_NO_CONN == "MQTT_ERR_NO_CONN"

\* setup_logging(log_level=config.LOG_LEVEL) as sender.py calls it (line 82)
setup_logging(log_level) == [raised |-> FALSE]

\* csv.DictReader (lines 39-40): the first row names the fields, the rows
\* after it are the data points
DictReader(rows) == IF rows = <<>> THEN <<>> ELSE Tail(rows)

\* the uploader's loop after one file: the next file, or the end of main
AfterFile(files) == IF files = {} THEN "idle" ELSE "next_file"

\* main (lines 80-106): the names ending in .csv are listed once and the
\* broker is connected
Up_Main ==
    /\ up_pc = "idle"
    /\ up_runs < MaxUploaderRuns
    /\ ~setup_logging("INFO").raised
    /\ up_runs' = up_runs + 1
    /\ \E connected \in BOOLEAN :
         LET files_to_send == DOMAIN sto_dir
         IN IF files_to_send = {} \/ ~connected
            THEN UNCHANGED <<up_pc, up_files>>
            ELSE /\ up_pc' = "next_file"
                 /\ up_files' = files_to_send
    /\ UNCHANGED <<up_data_points, up_renamed, up_published>>
    /\ UNCHANGED <<varsSto, notSto>>

\* process_and_send_file (lines 37-45): the rows are read; a file without
\* data points is renamed to X.csv.empty
Up_ProcessAndSendFile_Read ==
    /\ up_pc = "next_file"
    /\ LET filepath == CHOOSE p \in up_files : \A q \in up_files : p <= q
           remaining == up_files \ {filepath}
       IN /\ up_files' = remaining
          /\ IF filepath \notin DOMAIN sto_dir
             THEN /\ up_pc' = AfterFile(remaining)
                  /\ UNCHANGED <<up_data_points, up_renamed, sto_dir>>
             ELSE LET data_points == DictReader(sto_dir[filepath].rows)
                  IN IF data_points = <<>>
                     THEN /\ up_pc' = AfterFile(remaining)
                          /\ up_renamed' = PutFile(up_renamed, filepath,
                                [file |-> sto_dir[filepath], suffix |-> "empty"])
                          /\ sto_dir' = [n \in (DOMAIN sto_dir) \ {filepath} |-> sto_dir[n]]
                          /\ UNCHANGED up_data_points
                     ELSE /\ up_pc' = "publish"
                          /\ up_data_points' = [filename |-> filepath, angle_data |-> data_points]
                          /\ UNCHANGED <<up_renamed, sto_dir>>
    /\ UNCHANGED <<up_published, up_runs>>
    /\ UNCHANGED <<sto, sto_now, sto_log, sto_hist>>
    /\ UNCHANGED notSto

\* process_and_send_file (lines 47-68): the payload is published, and on
\* MQTT_ERR_SUCCESS the file is renamed to X.csv.sent
Up_ProcessAndSendFile_Publish ==
    /\ up_pc = "publish"
    /\ \E rc \in {MQTT_ERR_SUCCESS, MQTT_ERR_NO_CONN} :
         LET filepath == up_data_points.filename
         IN /\ up_published' = Append(up_published,
                  [filename |-> filepath, angle_data |-> up_data_points.angle_data, rc |-> rc])
            /\ IF rc = MQTT_ERR_SUCCESS /\ filepath \in DOMAIN sto_dir
               THEN /\ up_renamed' = PutFile(up_renamed, filepath,
                          [file |-> sto_dir[filepath], suffix |-> "sent"])
                    /\ sto_dir' = [n \in (DOMAIN sto_dir) \ {filepath} |-> sto_dir[n]]
               ELSE UNCHANGED <<up_renamed, sto_dir>>
    /\ up_pc' = AfterFile(up_files)
    /\ up_data_points' = <<>>
    /\ UNCHANGED <<up_files, up_runs>>
    /\ UNCHANGED <<sto, sto_now, sto_log, sto_hist>>
    /\ UNCHANGED notSto

UpNext ==
    \/ Sto_Tick
    \/ Sto_WriteData
    \/ Sto_Restart
    \/ Up_Main
    \/ Up_ProcessAndSendFile_Read
    \/ Up_ProcessAndSendFile_Publish

SpecUpload == StoInit /\ [][UpNext]_vars

\* the data points published with MQTT_ERR_SUCCESS for the file named p
PublishedFor(p) ==
    UNION {Range(up_published[k].angle_data) :
             k \in {j \in 1..Len(up_published) :
                      /\ up_published[j].filename = p
                      /\ up_published[j].rc = MQTT_ERR_SUCCESS}}

====
